---- MODULE Spec2Model ----
(***************************************************************************)
(* Model of the hidden API signature trie, flag comparison, signature     *)
(* patterns and package classification of scripts/hiddenapi               *)
(* (signature_trie.py, verify_overlaps.py, signature_patterns.py,          *)
(* analyze_bcpf.py).                                                       *)
(*                                                                         *)
(* Text.  A Python str is modelled as a sequence of lexemes.  Every lexeme *)
(* is a single character, except the member separator ";->" which is one   *)
(* lexeme; '-' and '>' occur nowhere else in the modelled texts, so the    *)
(* places where str.split(";->") cuts are exactly the ";->" lexemes.  The  *)
(* Python string of a text is the concatenation of its lexemes.            *)
(***************************************************************************)
EXTENDS Integers, Sequences, FiniteSets, TLC

VARIABLES
    tries,      \* trie id -> root InteriorNode (one per signature_trie() call)
    added,      \* history: trie id -> sequence of the (signature, value) the trie's adds stored
    last,       \* the last call made on a trie and its outcome
    calls,      \* number of add calls made so far
    gtext,      \* grammar run: the text handed to signature_to_elements
    gresult,    \* grammar run: what the calls returned or raised
    monolithicFlagsDict,  \* comparison run: signature -> row of the monolithic subset
    modularFlagsDict,     \* comparison run: signature -> row of the module
    implicitDefault,      \* comparison run: the default the caller asks for
    mismatches,           \* comparison run: what compare_signature_flags returned
    monolithicRows,       \* overlap run: the rows of the monolithic flags stream
    monolithicTrie,       \* overlap run: what read_flag_trie_from_stream returned or raised
    patternStream,        \* overlap run: the lines of the patterns stream
    overlap,              \* overlap run: how the extraction of the subset ended
    flagsStream,          \* pattern run: the signatures of the rows of the flags stream
    splitPackages,        \* pattern run: the set of split packages
    singlePackages,       \* pattern run: the list of single packages
    packagePrefixes,      \* pattern run: the list of package prefixes
    patternCall,          \* pattern run: the last call of signature_patterns.py and its result
    matchedBack,          \* pattern run: what the produced patterns select from a trie of the stream
    flagsFile,            \* classifier run: the lines of the monolithic hiddenapi-flags.csv
    bcpfClasses,          \* classifier run: BcpfAnalyzer._classes
    packageProperties,    \* classifier run: what compute_hiddenapi_package_properties returned
    buildOutput,          \* report run: the build, the lines it has printed and those main has yet to print
    scanned               \* report run: where build_hiddenapi_flags is, its locals and what it returned

vars == <<tries, added, last, calls, gtext, gresult,
          monolithicFlagsDict, modularFlagsDict, implicitDefault, mismatches,
          monolithicRows, monolithicTrie, patternStream, overlap,
          flagsStream, splitPackages, singlePackages, packagePrefixes,
          patternCall, matchedBack, flagsFile, bcpfClasses, packageProperties,
          buildOutput, scanned>>

trieVars == <<tries, added, last, calls>>
grammarVars == <<gtext, gresult>>
compareVars == <<monolithicFlagsDict, modularFlagsDict, implicitDefault, mismatches>>
overlapVars == <<monolithicRows, monolithicTrie, patternStream, overlap>>
patternVars == <<flagsStream, splitPackages, singlePackages, packagePrefixes,
                 patternCall, matchedBack>>
classifierVars == <<flagsFile, bcpfClasses, packageProperties>>
reportVars == <<buildOutput, scanned>>
toolVars == <<overlapVars, patternVars, classifierVars, reportVars>>

---------------------------------------------------------------------------
(* Bounds *)

\* longest text, in lexemes, handed to signature_to_elements in the grammar runs
MaxTextLen == 6
\* number of add calls in one run of the trie
MaxAdds == 3
\* longest flag list of a row in the comparison runs
MaxFlags == 2
\* most rows in a monolithic flags stream
MaxRows == 3
\* most lines in a patterns stream
MaxPatterns == 2
\* lines of a flags file
MaxLines == 3
\* classes of a monolithic flags file that holds every class once
MaxClasses == 4
\* lines of the build output that follow the report
MaxFollowing == 2

---------------------------------------------------------------------------
(* str helpers *)

ARROW == ";->"

\* str.islower(): cased characters of the modelled alphabet
LowerCase == {"a", "b", "c", "m", "n"}
UpperCase == {"L", "B", "C", "D"}

\* the lexemes the grammar runs build their texts from
Alphabet == {"L", "a", "B", "/", "$", ";", ARROW, "*"}

\* every text of n lexemes
TextsOfLen(n) == [1..n -> Alphabet]

\* str.removeprefix(prefix), prefix a single lexeme
removeprefix(text, prefix) ==
    IF Len(text) >= 1 /\ text[1] = prefix THEN Tail(text) ELSE text

\* str.removesuffix(suffix), suffix a single lexeme
removesuffix(text, suffix) ==
    IF Len(text) >= 1 /\ text[Len(text)] = suffix
    THEN SubSeq(text, 1, Len(text) - 1)
    ELSE text

\* str.split(sep), sep a single lexeme: always at least one part
RECURSIVE split(_, _)
split(text, sep) ==
    IF \E i \in 1..Len(text) : text[i] = sep
    THEN LET i == CHOOSE k \in 1..Len(text) :
                    /\ text[k] = sep
                    /\ \A j \in 1..(k - 1) : text[j] # sep
         IN <<SubSeq(text, 1, i - 1)>> \o split(SubSeq(text, i + 1, Len(text)), sep)
    ELSE <<text>>

\* "x in text" for a single lexeme x
contains(text, x) == \E i \in 1..Len(text) : text[i] = x

\* a check of the first character alone, as in text[0].islower()
islower_first_character(text) ==
    Len(text) >= 1 /\ text[1] \in LowerCase

\* str.islower(): at least one cased character and no upper-case one
islower(text) ==
    /\ \E i \in 1..Len(text) : text[i] \in LowerCase
    /\ \A i \in 1..Len(text) : text[i] \notin UpperCase

\* [(kind, x) for x in parts]
tagged(kind, parts) == [i \in 1..Len(parts) |-> <<kind, parts[i]>>]

STAR == <<"*">>
STARSTAR == <<"*", "*">>

---------------------------------------------------------------------------
(* signature_trie.py: the grammar *)

\* an exception: its kind, and the text its message carries
Raise(kind, signature) == [ok |-> FALSE, error |-> kind, signature |-> signature]

InvalidWildcard == "invalid wildcard"
WildcardAndMember == "contains wildcard and member signature"
LastElementLowerCase == "last element is lower case"
NotAMember == "does not identify a specific member"
DuplicateSignature == "Duplicate signature"
AttributeError == "AttributeError: 'Leaf' object has no attribute 'nodes'"

\* the grammar without the check of a '*' inside a longer last segment
signature_to_elements_lax_wildcard(signature) ==
    LET text == removeprefix(signature, "L")
        parts == split(text, ARROW)
        member == Tail(parts)
        elements == split(parts[1], "/")
        last_element == elements[Len(elements)]
        packages == SubSeq(elements, 1, Len(elements) - 1)
    IN  IF last_element \in {STAR, STARSTAR}
        THEN IF member # <<>>
             THEN Raise(WildcardAndMember, signature)
             ELSE [ok |-> TRUE,
                   elements |-> tagged("package", packages)
                                \o tagged("wildcard", <<last_element>>)]
        ELSE IF islower(last_element)
        THEN Raise(LastElementLowerCase, signature)
        ELSE LET classes == split(removesuffix(last_element, ";"), "$")
             IN [ok |-> TRUE,
                 elements |-> tagged("package", packages)
                              \o tagged("class", classes)
                              \o tagged("member", member)]

signature_to_elements(signature) ==
    LET text == removeprefix(signature, "L")
        parts == split(text, ARROW)
        member == Tail(parts)
        elements == split(parts[1], "/")
        last_element == elements[Len(elements)]
        packages == SubSeq(elements, 1, Len(elements) - 1)
    IN  IF contains(last_element, "*")
        THEN IF last_element \notin {STAR, STARSTAR}
             THEN Raise(InvalidWildcard, signature)
             ELSE IF member # <<>>
             THEN Raise(WildcardAndMember, signature)
             ELSE [ok |-> TRUE,
                   elements |-> tagged("package", packages)
                                \o tagged("wildcard", <<last_element>>)]
        ELSE IF islower(last_element)
        THEN Raise(LastElementLowerCase, signature)
        ELSE LET classes == split(removesuffix(last_element, ";"), "$")
             IN [ok |-> TRUE,
                 elements |-> tagged("package", packages)
                              \o tagged("class", classes)
                              \o tagged("member", member)]

element_type(element) == element[1]

element_value(element) == element[2]

\* every class joined with "/", nested or not
separator_flat_classes(type, preceding_type) ==
    CASE type = "member" -> <<ARROW>>
      [] OTHER -> <<"/">>

\* the separator elements_to_selector puts before an element
separator(type, preceding_type) ==
    CASE type = "package" -> <<"/">>
      [] type = "class" -> IF preceding_type = "class" THEN <<"$">> ELSE <<"/">>
      [] type = "wildcard" -> <<"/">>
      [] type = "member" -> <<ARROW>>
      [] OTHER -> <<>>

\* the loop of elements_to_selector from element i on
RECURSIVE selector_loop(_, _, _, _)
selector_loop(elements, i, signature, preceding_type) ==
    IF i > Len(elements) THEN signature
    ELSE LET type == element_type(elements[i])
             sep == IF signature # <<>> THEN separator(type, preceding_type) ELSE <<>>
         IN selector_loop(elements, i + 1,
                          signature \o sep \o element_value(elements[i]), type)

elements_to_selector(elements) == selector_loop(elements, 1, <<>>, "")

---------------------------------------------------------------------------
(* signature_trie.py: the trie.  A node is a record; the dict of an        *)
(* InteriorNode is the sequence of its items in insertion order, the order *)
(* in which Python iterates over it.                                       *)

\* an InteriorNode that takes every element for a package
InteriorNode_of_package(type, selector) ==
    [class |-> "InteriorNode", type |-> "package", selector |-> selector, nodes |-> <<>>]

InteriorNode(type, selector) ==
    [class |-> "InteriorNode", type |-> type, selector |-> selector, nodes |-> <<>>]

Leaf(type, selector, value) ==
    [class |-> "Leaf", type |-> type, selector |-> selector, value |-> value]

signature_trie == InteriorNode("root", <<>>)

\* key in nodes
has_key(nodes, key) == \E i \in 1..Len(nodes) : nodes[i].key = key

\* nodes[key]
get_item(nodes, key) == nodes[CHOOSE i \in 1..Len(nodes) : nodes[i].key = key].node

\* nodes[key] = node: a new key goes last, an existing key keeps its place
set_item(nodes, key, node) ==
    IF has_key(nodes, key)
    THEN [i \in 1..Len(nodes) |->
            IF nodes[i].key = key THEN [key |-> key, node |-> node] ELSE nodes[i]]
    ELSE Append(nodes, [key |-> key, node |-> node])

\* hasattr(node, "nodes"): a Leaf has no dict
has_nodes(node) == node.class = "InteriorNode"

\* add without the duplicate check: a second add replaces the Leaf
add_leaf_overwrite(node, last_element, signature, value) ==
    IF element_type(last_element) # "member"
    THEN [node |-> node, outcome |-> Raise(NotAMember, signature)]
    ELSE IF ~has_nodes(node)
    THEN [node |-> node, outcome |-> Raise(AttributeError, signature)]
    ELSE [node |-> [node EXCEPT !.nodes =
                        set_item(node.nodes, last_element,
                                 Leaf(element_type(last_element), signature, value))],
          outcome |-> [ok |-> TRUE, stored |-> TRUE]]

\* add without the member check: a Leaf is stored under any last element
add_leaf_any_kind(node, last_element, signature, value) ==
    IF ~has_nodes(node)
    THEN [node |-> node, outcome |-> Raise(AttributeError, signature)]
    ELSE IF has_key(node.nodes, last_element)
    THEN [node |-> node, outcome |-> Raise(DuplicateSignature, signature)]
    ELSE [node |-> [node EXCEPT !.nodes =
                        set_item(node.nodes, last_element,
                                 Leaf(element_type(last_element), signature, value))],
          outcome |-> [ok |-> TRUE, stored |-> TRUE]]

\* the check of add on the last element, made on the node the walk ended at
add_leaf(node, last_element, signature, value) ==
    IF element_type(last_element) # "member"
    THEN [node |-> node, outcome |-> Raise(NotAMember, signature)]
    ELSE IF ~has_nodes(node)
    THEN [node |-> node, outcome |-> Raise(AttributeError, signature)]
    ELSE IF has_key(node.nodes, last_element)
    THEN [node |-> node, outcome |-> Raise(DuplicateSignature, signature)]
    ELSE [node |-> [node EXCEPT !.nodes =
                        set_item(node.nodes, last_element,
                                 Leaf(element_type(last_element), signature, value))],
          outcome |-> [ok |-> TRUE, stored |-> TRUE]]

\* the walk of add from elements[index + 1] on (index as in enumerate), at node;
\* what it has created stays in the trie when a later step raises
RECURSIVE add_walk(_, _, _, _, _, _)
add_walk(node, elements, index, signature, value, only_if_matches) ==
    IF index = Len(elements) - 1
    THEN add_leaf(node, elements[Len(elements)], signature, value)
    ELSE LET element == elements[index + 1]
         IN IF ~has_nodes(node)
            THEN [node |-> node, outcome |-> Raise(AttributeError, signature)]
            ELSE IF has_key(node.nodes, element)
            THEN LET below == add_walk(get_item(node.nodes, element), elements,
                                       index + 1, signature, value, only_if_matches)
                 IN [node |-> [node EXCEPT !.nodes =
                                    set_item(node.nodes, element, below.node)],
                     outcome |-> below.outcome]
            ELSE IF only_if_matches /\ index = 0
            THEN [node |-> node, outcome |-> [ok |-> TRUE, stored |-> FALSE]]
            ELSE LET selector == elements_to_selector(SubSeq(elements, 1, index + 1))
                     next_node == InteriorNode(element_type(element), selector)
                     below == add_walk(next_node, elements, index + 1,
                                       signature, value, only_if_matches)
                 IN [node |-> [node EXCEPT !.nodes =
                                    set_item(node.nodes, element, below.node)],
                     outcome |-> below.outcome]

\* add that walks as if only_if_matches were never set
add_unconditionally(self, signature, value, only_if_matches) ==
    LET parsed == signature_to_elements(signature)
    IN IF ~parsed.ok
       THEN [node |-> self, outcome |-> parsed]
       ELSE add_walk(self, parsed.elements, 0, signature, value, FALSE)

\* InteriorNode.add: the trie after the call and how the call ended
add(self, signature, value, only_if_matches) ==
    LET parsed == signature_to_elements(signature)
    IN IF ~parsed.ok
       THEN [node |-> self, outcome |-> parsed]
       ELSE add_walk(self, parsed.elements, 0, signature, value, only_if_matches)

\* a '*' wildcard that selects sub-packages too
select_everything(selector, key) == TRUE

\* the two selector lambdas of get_matching_rows, by name
select(selector, key) ==
    IF selector = "not package" THEN element_type(key) # "package" ELSE TRUE

\* Node.values(selector): InteriorNode.append_values / Leaf.append_values
RECURSIVE values(_, _)
RECURSIVE append_items(_, _, _)
append_items(nodes, i, selector) ==
    IF i > Len(nodes) THEN <<>>
    ELSE (IF select(selector, nodes[i].key) THEN values(nodes[i].node, "all") ELSE <<>>)
         \o append_items(nodes, i + 1, selector)

\* values that stop at the members of the node itself
RECURSIVE direct_items(_, _, _)
direct_items(nodes, i, selector) ==
    IF i > Len(nodes) THEN <<>>
    ELSE (IF select(selector, nodes[i].key) /\ ~has_nodes(nodes[i].node)
          THEN <<nodes[i].node.value>> ELSE <<>>)
         \o direct_items(nodes, i + 1, selector)

values_of_direct_members(node, selector) ==
    IF has_nodes(node) THEN direct_items(node.nodes, 1, selector)
    ELSE <<node.value>>

values(node, selector) ==
    IF has_nodes(node) THEN append_items(node.nodes, 1, selector)
    ELSE <<node.value>>

\* the descent of get_matching_rows from elements[i] on
RECURSIVE matching_walk(_, _, _, _)
matching_walk(node, elements, i, selector) ==
    IF i > Len(elements)
    THEN [ok |-> TRUE, rows |-> values(node, selector)]
    ELSE IF ~has_nodes(node)
    THEN [ok |-> FALSE, error |-> AttributeError]
    ELSE IF has_key(node.nodes, elements[i])
    THEN matching_walk(get_item(node.nodes, elements[i]), elements, i + 1, selector)
    ELSE [ok |-> TRUE, rows |-> <<>>]

\* InteriorNode.get_matching_rows
get_matching_rows(self, pattern) ==
    LET parsed == signature_to_elements(pattern)
    IN IF ~parsed.ok THEN parsed
       ELSE LET all == parsed.elements
                last_element == all[Len(all)]
                wildcard == element_type(last_element) = "wildcard"
                elements == IF wildcard THEN SubSeq(all, 1, Len(all) - 1) ELSE all
                selector == IF wildcard /\ element_value(last_element) = STAR
                            THEN "not package" ELSE "all"
            IN matching_walk(self, elements, 1, selector)

---------------------------------------------------------------------------
(* Trie runs: add and get_matching_rows called on tries made by            *)
(* signature_trie().  The value of the k-th add call is k.                 *)

TrieIds == {1, 2}

\* the texts the runs of one trie hand to add
Signatures ==
    { <<"L", "a", "/", "B", ARROW, "m">>,
      <<"L", "a", "/", "B", "$", "C", ARROW, "m">>,
      <<"L", "a", "/", "b", "/", "D", ARROW, "m">>,
      <<"L", "a", "/", "D", ARROW, "n">>,
      <<"L", "b", "/", "B", ARROW, "m">>,
      <<"L", "a", "/", "B", ARROW, "m", ARROW, "n">>,
      <<"L", "a", "/", "D">>,
      <<"L", "a", "/", "b", "/", "*">>,
      <<"L", "a", "/", "b">>,
      <<"L", "D">>,
      <<"L", "/", "B", ARROW, "m">> }

\* the (signature, only_if_matches) arguments the runs of one trie draw from
AddInputs == Signatures \X BOOLEAN

\* the arguments the runs of two tries draw from
TwoTrieInputs ==
    { <<(<<"L", "a", "/", "B", ARROW, "m">>), FALSE>>,
      <<(<<"L", "a", "/", "D", ARROW, "n">>), TRUE>>,
      <<(<<"L", "a", "/", "B", ARROW, "m", ARROW, "n">>), FALSE>>,
      <<(<<"L", "b", "/", "B", "$", "C", ARROW, "m">>), FALSE>> }

\* the patterns the runs hand to get_matching_rows
Patterns ==
    { <<"L", "a", "/", "B", ARROW, "m">>,
      <<"L", "a", "/", "D", ARROW, "n">>,
      <<"L", "a", "/", "B", ARROW, "m", ARROW, "n">>,
      <<"a", "/", "B">>,
      <<"L", "a", "/", "B", "$", "C">>,
      <<"L", "a", "/", "C">>,
      <<"L", "a", "/", "D", ";">>,
      <<"a", "/", "*">>,
      <<"a", "/", "*", "*">>,
      <<"a", "/", "b", "/", "*">>,
      <<"b", "/", "*", "*">>,
      <<"*", "*">>,
      <<"a", "/", "B", "*">> }

TrieIdle == [op |-> "none"]

TrieInit ==
    /\ tries = [t \in TrieIds |-> signature_trie]
    /\ added = [t \in TrieIds |-> <<>>]
    /\ last = TrieIdle
    /\ calls = 0

\* trie.add(signature, value, only_if_matches) on trie t
Add(t, signature, only_if_matches) ==
    /\ calls < MaxAdds
    /\ LET value == calls + 1
           done == add(tries[t], signature, value, only_if_matches)
       IN /\ tries' = [tries EXCEPT ![t] = done.node]
          /\ added' = IF done.outcome.ok /\ done.outcome.stored
                      THEN [added EXCEPT ![t] =
                                Append(@, [signature |-> signature, value |-> value])]
                      ELSE added
          /\ last' = [op |-> "add", trie |-> t, signature |-> signature,
                      value |-> value, only_if_matches |-> only_if_matches,
                      outcome |-> done.outcome]
    /\ calls' = calls + 1
    /\ UNCHANGED <<grammarVars, compareVars, toolVars>>

\* trie.get_matching_rows(pattern) on trie t
Query(t, pattern) ==
    /\ last' = [op |-> "get_matching_rows", trie |-> t, pattern |-> pattern,
                result |-> get_matching_rows(tries[t], pattern)]
    /\ UNCHANGED <<tries, added, calls, grammarVars, compareVars, toolVars>>

---------------------------------------------------------------------------
(* Grammar runs: signature_to_elements and elements_to_selector on every   *)
(* text of at most MaxTextLen lexemes.                                     *)

GrammarIdle == [phase |-> "idle"]

\* one call of signature_to_elements on the text
Decompose ==
    /\ gresult.phase = "input"
    /\ gresult' = [phase |-> "decomposed", first |-> signature_to_elements(gtext)]
    /\ UNCHANGED <<gtext, trieVars, compareVars, toolVars>>

\* the selector of the elements, and the elements of "L" + selector
RoundTrip ==
    /\ gresult.phase = "decomposed"
    /\ gresult.first.ok
    /\ LET selector == elements_to_selector(gresult.first.elements)
       IN gresult' = [phase |-> "round trip", first |-> gresult.first,
                      selector |-> selector,
                      second |-> signature_to_elements(<<"L">> \o selector)]
    /\ UNCHANGED <<gtext, trieVars, compareVars, toolVars>>

---------------------------------------------------------------------------
(* verify_overlaps.py: compare_signature_flags.  A dict is a function on   *)
(* its keys; a row is the record csv.DictReader builds, with the flags     *)
(* under the key None when the line has any field after the signature.     *)

\* the characters of a text: ";->" is three of them
RECURSIVE characters(_)
characters(text) ==
    IF text = <<>> THEN <<>>
    ELSE (IF Head(text) = ARROW THEN <<";", "-", ">">> ELSE <<Head(text)>>)
         \o characters(Tail(text))

\* ord(c) of the characters of the modelled texts
ord(c) ==
    CASE c = "$" -> 36 [] c = "*" -> 42 [] c = "-" -> 45 [] c = "." -> 46
      [] c = "/" -> 47
      [] c = ";" -> 59 [] c = ">" -> 62 [] c = "B" -> 66 [] c = "C" -> 67
      [] c = "D" -> 68 [] c = "L" -> 76 [] c = "a" -> 97 [] c = "b" -> 98
      [] c = "c" -> 99
      [] c = "m" -> 109 [] c = "n" -> 110

\* str < str on the characters
RECURSIVE characters_less(_, _)
characters_less(x, y) ==
    IF y = <<>> THEN FALSE
    ELSE IF x = <<>> THEN TRUE
    ELSE IF Head(x) # Head(y) THEN ord(Head(x)) < ord(Head(y))
    ELSE characters_less(Tail(x), Tail(y))

str_less(a, b) == characters_less(characters(a), characters(b))

\* the keys from the greatest down
RECURSIVE sorted_descending(_)
sorted_descending(keys) ==
    IF keys = {} THEN <<>>
    ELSE LET greatest == CHOOSE k \in keys : \A other \in keys \ {k} : str_less(other, k)
         IN <<greatest>> \o sorted_descending(keys \ {greatest})

\* sorted(set(keys))
RECURSIVE sorted(_)
sorted(keys) ==
    IF keys = {} THEN <<>>
    ELSE LET least == CHOOSE k \in keys : \A other \in keys \ {k} : str_less(k, other)
         IN <<least>> \o sorted(keys \ {least})

\* dict.get(key, default)
dict_get(dict, key, default) == IF key \in DOMAIN dict THEN dict[key] ELSE default

\* row.get(None, [])
row_flags(row) == IF "None" \in DOMAIN row THEN row.None ELSE <<>>

EmptyDict == <<>>

\* the loop of compare_signature_flags from allSignatures[i] on
RECURSIVE compare_loop(_, _, _, _)
compare_loop(allSignatures, i, monolithic, modular) ==
    IF i > Len(allSignatures) THEN <<>>
    ELSE LET signature == allSignatures[i]
             monolithicRow == dict_get(monolithic, signature, EmptyDict)
             monolithicFlags == row_flags(monolithicRow)
             modularFlags == IF signature \in DOMAIN modular
                             THEN row_flags(dict_get(modular, signature, EmptyDict))
                             ELSE <<"blocked">>
         IN (IF monolithicFlags # modularFlags
             THEN << <<signature, modularFlags, monolithicFlags>> >>
             ELSE <<>>)
            \o compare_loop(allSignatures, i + 1, monolithic, modular)

compare_signature_flags(monolithic, modular) ==
    compare_loop(sorted(DOMAIN monolithic \union DOMAIN modular), 1, monolithic, modular)

---------------------------------------------------------------------------
(* Comparison runs: compare_signature_flags on every pair of dicts over    *)
(* two signatures with at most MaxFlags flags a row.                       *)

CompareSignatures ==
    { <<"L", "a", "/", "B", ARROW, "m">>,
      <<"L", "a", "/", "B", "$", "C", ARROW, "m">> }

Flags == {"blocked", "public-api"}

\* the fields after the signature: the reader sets the key None only when a line
\* has at least one
FlagLists == UNION {[1..n -> Flags] : n \in 1..MaxFlags}

RowsOf(signature) ==
    {[signature |-> signature]}
    \union {[signature |-> signature, None |-> flags] : flags \in FlagLists}

FlagDicts ==
    UNION {{dict \in [keys -> UNION {RowsOf(s) : s \in keys}] :
                \A s \in keys : dict[s].signature = s} :
           keys \in SUBSET CompareSignatures}

\* the defaults the callers in verify_overlaps_test.py ask for
ImplicitDefaults == {<<>>, <<"blocked">>}

NoComparison == [call |-> "none"]
TwoArguments == "compare_signature_flags(monolithic, modular)"
ThreeArguments == "compare_signature_flags(monolithic, modular, implicit_default)"
TypeError == "TypeError: compare_signature_flags() takes 2 positional arguments but 3 were given"

CompareIdle ==
    /\ monolithicFlagsDict = EmptyDict
    /\ modularFlagsDict = EmptyDict
    /\ implicitDefault = <<>>
    /\ mismatches = NoComparison

\* the call main makes
Compare ==
    /\ mismatches.call = "none"
    /\ mismatches' = [call |-> TwoArguments, ok |-> TRUE,
                      result |-> compare_signature_flags(monolithicFlagsDict,
                                                         modularFlagsDict)]
    /\ UNCHANGED <<monolithicFlagsDict, modularFlagsDict, implicitDefault,
                   trieVars, grammarVars, toolVars>>

\* the call the tests make, with a default for the signatures the module lacks:
\* the function has no third parameter
CompareWithDefault(default) ==
    /\ mismatches.call = "none"
    /\ implicitDefault' = default
    /\ mismatches' = [call |-> ThreeArguments, ok |-> FALSE, error |-> TypeError]
    /\ UNCHANGED <<monolithicFlagsDict, modularFlagsDict, trieVars, grammarVars, toolVars>>

---------------------------------------------------------------------------
(* The grammar's claims, stated on the text itself *)

\* the text without its leading sentinel
Unprefixed(text) == IF text # <<>> /\ Head(text) = "L" THEN Tail(text) ELSE text

\* the text has a ";->" member suffix
HasMemberSuffix(text) == \E i \in 1..Len(text) : text[i] = ARROW

\* the qualified class path: what precedes the first ";->"
ClassPath(text) ==
    LET u == Unprefixed(text)
        stop == IF HasMemberSuffix(u)
                THEN CHOOSE i \in 1..Len(u) :
                        u[i] = ARROW /\ \A j \in 1..(i - 1) : u[j] # ARROW
                ELSE Len(u) + 1
    IN SubSeq(u, 1, stop - 1)

\* the final '/'-separated segment of the class path
FinalSegment(text) ==
    LET path == ClassPath(text)
        slashes == {i \in 1..Len(path) : path[i] = "/"}
        start == IF slashes = {} THEN 1
                 ELSE 1 + CHOOSE i \in slashes : \A j \in slashes : j <= i
    IN SubSeq(path, start, Len(path))

\* the values of the elements of one kind, in order
RECURSIVE ValuesOfKind(_, _)
ValuesOfKind(elements, kind) ==
    IF elements = <<>> THEN <<>>
    ELSE (IF Head(elements)[1] = kind THEN <<Head(elements)[2]>> ELSE <<>>)
         \o ValuesOfKind(Tail(elements), kind)

\* texts joined with a separator lexeme
RECURSIVE Joined(_, _)
Joined(texts, sep) ==
    IF Len(texts) = 0 THEN <<>>
    ELSE IF Len(texts) = 1 THEN texts[1]
    ELSE texts[1] \o <<sep>> \o Joined(Tail(texts), sep)

GrammarError(result, text) == ~result.ok /\ result.signature = text

Decomposed == gresult.phase \in {"decomposed", "round trip"}

\* C6 as claimed: for every accepted text s, decomposing "L" + selector of s's
\* elements gives the elements of s again
C6_RoundTripOfEveryAcceptedText ==
    gresult.phase = "round trip" =>
        /\ gresult.second.ok
        /\ gresult.second.elements = gresult.first.elements

\* elements whose selector loses a separator or a ';': more than one element with
\* an empty first one, or an innermost class ending in ';'
LosesText(elements) ==
    \/ Len(elements) > 1 /\ elements[1][2] = <<>>
    \/ LET classes == ValuesOfKind(elements, "class")
       IN /\ classes # <<>>
          /\ classes[Len(classes)] # <<>>
          /\ classes[Len(classes)][Len(classes[Len(classes)])] = ";"

\* C6 amended: the round trip holds for every accepted text whose first element
\* is not empty (unless it is the only element) and whose innermost class element
\* does not end in ';'
C6_RoundTrip ==
    (gresult.phase = "round trip" /\ ~LosesText(gresult.first.elements)) =>
        /\ gresult.second.ok
        /\ gresult.second.elements = gresult.first.elements

\* C6 witness: a text with a package, a class and a member has made the round trip
C6_Witness ==
    /\ gresult.phase = "round trip"
    /\ ~LosesText(gresult.first.elements)
    /\ gtext = <<"L", "a", "/", "B", ARROW, "a">>
    /\ gresult.first.elements =
          << <<"package", <<"a">> >>, <<"class", <<"B">> >>, <<"member", <<"a">> >> >>
    /\ gresult.selector = <<"a", "/", "B", ARROW, "a">>
    /\ gresult.second.elements = gresult.first.elements

\* C7: a last class-path segment that contains '*' without being '*' or '**' is a
\* grammar error carrying the text, and so is '*' or '**' followed by a member
\* suffix; an accepted wildcard gives one wildcard element, last, after packages only
C7_Wildcard ==
    Decomposed =>
        LET segment == FinalSegment(gtext)
            result == gresult.first
        IN /\ (contains(segment, "*") /\ segment \notin {STAR, STARSTAR})
                => GrammarError(result, gtext) /\ result.error = InvalidWildcard
           /\ (segment \in {STAR, STARSTAR} /\ HasMemberSuffix(gtext))
                => GrammarError(result, gtext) /\ result.error = WildcardAndMember
           /\ (segment \in {STAR, STARSTAR} /\ ~HasMemberSuffix(gtext))
                => /\ result.ok
                   /\ result.elements[Len(result.elements)] = <<"wildcard", segment>>
                   /\ \A i \in 1..(Len(result.elements) - 1) :
                          result.elements[i][1] = "package"
           /\ (result.ok /\ \E i \in 1..Len(result.elements) :
                                result.elements[i][1] = "wildcard")
                => segment \in {STAR, STARSTAR}

\* C7 witness: a malformed wildcard was rejected
C7_Witness ==
    /\ Decomposed
    /\ contains(FinalSegment(gtext), "*")
    /\ Len(FinalSegment(gtext)) = 2
    /\ FinalSegment(gtext) # STARSTAR
    /\ ~gresult.first.ok

\* a segment with at least one cased character, all of them lower-case
EntirelyLowerCase(segment) ==
    /\ {i \in 1..Len(segment) : segment[i] \in UpperCase} = {}
    /\ {i \in 1..Len(segment) : segment[i] \in LowerCase} # {}

\* C8: a last segment without '*' that is entirely lower-case is a grammar error,
\* with or without a member suffix; one that holds an upper-case character is
\* accepted and split on '$' into the class elements, outermost first
C8_LowerCase ==
    Decomposed =>
        LET segment == FinalSegment(gtext)
            result == gresult.first
        IN ~contains(segment, "*") =>
            /\ EntirelyLowerCase(segment)
                 => GrammarError(result, gtext) /\ result.error = LastElementLowerCase
            /\ (\E i \in 1..Len(segment) : segment[i] \in UpperCase)
                 => /\ result.ok
                    /\ LET classes == ValuesOfKind(result.elements, "class")
                       IN /\ classes # <<>>
                          /\ \A i \in 1..Len(classes) : ~contains(classes[i], "$")
                          /\ Joined(classes, "$") \in
                                {segment, SubSeq(segment, 1, Len(segment) - 1)}
                          /\ Joined(classes, "$") # segment
                                => segment[Len(segment)] = ";"

\* C8 witness: a class name starting in lower case was accepted, nested class included
C8_Witness ==
    /\ Decomposed
    /\ gresult.first.ok
    /\ gtext = <<"a", "B", "$", "B", ARROW, "a">>
    /\ gresult.first.elements =
          << <<"class", <<"a", "B">> >>, <<"class", <<"B">> >>, <<"member", <<"a">> >> >>

---------------------------------------------------------------------------
(* The trie's claims, stated against the history of what the adds stored *)

\* the element path of a text the grammar accepts
ElementsOf(text) == signature_to_elements(text).elements

Accepted(text) == signature_to_elements(text).ok

IsPrefix(p, q) == Len(p) <= Len(q) /\ SubSeq(q, 1, Len(p)) = p

\* the entries of trie t's history whose element path satisfies Test
Stored(t, Test(_)) ==
    {i \in 1..Len(added[t]) : Test(ElementsOf(added[t][i].signature))}

ValuesStored(t, entries) == {added[t][i].value : i \in entries}

\* rows holds each of the values once, in some order, and nothing else
HoldsExactly(rows, valueSet) ==
    /\ Len(rows) = Cardinality(valueSet)
    /\ {rows[i] : i \in 1..Len(rows)} = valueSet

\* the node an element path leads to from node, if every step has a child
RECURSIVE Reaches(_, _)
Reaches(node, elements) ==
    IF elements = <<>> THEN TRUE
    ELSE /\ node.class = "InteriorNode"
         /\ \E i \in 1..Len(node.nodes) :
                /\ node.nodes[i].key = Head(elements)
                /\ Reaches(node.nodes[i].node, Tail(elements))

RECURSIVE NodeAt(_, _)
NodeAt(node, elements) ==
    IF elements = <<>> THEN node
    ELSE LET i == CHOOSE k \in 1..Len(node.nodes) : node.nodes[k].key = Head(elements)
         IN NodeAt(node.nodes[i].node, Tail(elements))

\* every Leaf at or beneath node, as (element path, value)
RECURSIVE LeavesOf(_, _)
LeavesOf(node, path) ==
    IF node.class = "Leaf" THEN {<<path, node.value>>}
    ELSE UNION {LeavesOf(node.nodes[i].node, Append(path, node.nodes[i].key)) :
                    i \in 1..Len(node.nodes)}

MemberCount(elements) == Len(ValuesOfKind(elements, "member"))

Queried == last.op = "get_matching_rows"

\* C1: a pattern that is a class path or a member signature (no wildcard, at most
\* one ";->") returns the values of exactly the stored signatures whose element
\* path starts with the pattern's; a signature stored with value v returns <<v>>
C1_ConcretePattern ==
    Queried =>
        /\ (/\ Accepted(last.pattern)
            /\ ElementsOf(last.pattern)[Len(ElementsOf(last.pattern))][1] # "wildcard"
            /\ MemberCount(ElementsOf(last.pattern)) <= 1)
             => /\ last.result.ok
                /\ LET Under(path) == IsPrefix(ElementsOf(last.pattern), path)
                   IN HoldsExactly(last.result.rows,
                                   ValuesStored(last.trie, Stored(last.trie, Under)))
        /\ \A i \in 1..Len(added[last.trie]) :
              added[last.trie][i].signature = last.pattern
                 => last.result.ok /\ last.result.rows = <<added[last.trie][i].value>>

\* C1 witness: a class pattern returned the members of the class and of its nested
\* class while another class of the package is stored too
C1_Witness ==
    /\ Queried
    /\ last.pattern = <<"a", "/", "B">>
    /\ Len(last.result.rows) = 2
    /\ Len(added[1]) = 3

\* C2: p/** returns the values of every signature stored under package path p,
\* sub-packages included; p/* returns those whose packages are exactly p; and
\* the rows of p/* are among the rows of p/**
C2_Wildcards ==
    (/\ Queried
     /\ Accepted(last.pattern)
     /\ ElementsOf(last.pattern)[Len(ElementsOf(last.pattern))][1] = "wildcard") =>
        LET all == ElementsOf(last.pattern)
            p == SubSeq(all, 1, Len(all) - 1)
            Under(path) == IsPrefix(p, path)
            Directly(path) == IsPrefix(p, path) /\ path[Len(p) + 1][1] # "package"
            recursive == get_matching_rows(tries[last.trie], Append(last.pattern, "*"))
        IN /\ last.result.ok
           /\ all[Len(all)][2] = STARSTAR
                => HoldsExactly(last.result.rows,
                                ValuesStored(last.trie, Stored(last.trie, Under)))
           /\ all[Len(all)][2] = STAR
                => /\ HoldsExactly(last.result.rows,
                                   ValuesStored(last.trie, Stored(last.trie, Directly)))
                   /\ recursive.ok
                   /\ {last.result.rows[i] : i \in 1..Len(last.result.rows)}
                        \subseteq {recursive.rows[i] : i \in 1..Len(recursive.rows)}

\* C2 witness: a/* left out a member stored in sub-package a/b and returned two
\* members stored directly in a
C2_Witness ==
    /\ Queried
    /\ last.pattern = <<"a", "/", "*">>
    /\ Len(last.result.rows) = 2
    /\ Len(added[1]) = 3
    /\ \E i \in 1..3 : added[1][i].signature = <<"L", "a", "/", "b", "/", "D", ARROW, "m">>

\* the entries of trie t's history that were there before the last call
Before(t) ==
    IF last.op = "add" /\ last.trie = t /\ last.outcome.ok /\ last.outcome.stored
    THEN SubSeq(added[t], 1, Len(added[t]) - 1)
    ELSE added[t]

\* C3: an add of a signature whose element path already holds a Leaf raises
\* Duplicate signature with the signature, and every stored value stays the one
\* stored first; each trie holds exactly the leaves of its own adds, and an add
\* succeeds whenever the trie's own history leaves its path free, whatever the
\* other trie holds
C3_Duplicate ==
    /\ \A t \in TrieIds :
          /\ LeavesOf(tries[t], <<>>) =
                {<<ElementsOf(added[t][i].signature), added[t][i].value>> :
                    i \in 1..Len(added[t])}
          /\ \A i, j \in 1..Len(added[t]) :
                ElementsOf(added[t][i].signature) = ElementsOf(added[t][j].signature)
                    => i = j
    /\ last.op = "add" =>
          LET before == Before(last.trie)
              parsed == signature_to_elements(last.signature)
          IN /\ (/\ parsed.ok
                 /\ \E i \in 1..Len(before) :
                        ElementsOf(before[i].signature) = parsed.elements)
                  => last.outcome = Raise(DuplicateSignature, last.signature)
             /\ (/\ parsed.ok
                 /\ parsed.elements[Len(parsed.elements)][1] = "member"
                 /\ ~last.only_if_matches
                 /\ \A i \in 1..Len(before) :
                        /\ ~IsPrefix(ElementsOf(before[i].signature), parsed.elements)
                        /\ ~IsPrefix(parsed.elements, ElementsOf(before[i].signature)))
                  => last.outcome.ok /\ last.outcome.stored

\* C3 witness: the signature stored in both tries was added to one of them again
C3_Witness ==
    /\ last.op = "add"
    /\ ~last.outcome.ok
    /\ last.outcome.error = DuplicateSignature
    /\ Len(added[1]) = 1
    /\ Len(added[2]) = 1
    /\ added[1][1].signature = added[2][1].signature

\* the call was one that only_if_matches makes return at the first element
Skipped(t, elements, only_if_matches) ==
    /\ only_if_matches
    /\ Len(elements) >= 2
    /\ ~Reaches(tries[t], <<elements[1]>>)

NoLeafFor(t, elements) ==
    /\ \A i \in 1..Len(added[t]) : ElementsOf(added[t][i].signature) # elements
    /\ Reaches(tries[t], elements) => NodeAt(tries[t], elements).class # "Leaf"

EndsWithoutMember(text) ==
    /\ Accepted(text)
    /\ ElementsOf(text)[Len(ElementsOf(text))][1] # "member"

\* C4 as claimed: every add of a text whose last element is not a member element
\* raises the not-a-member error, and no Leaf is stored for the text
C4_EveryNonMemberAddRaises ==
    (last.op = "add" /\ EndsWithoutMember(last.signature)) =>
        /\ last.outcome = Raise(NotAMember, last.signature)
        /\ NoLeafFor(last.trie, ElementsOf(last.signature))

\* C4 amended: such an add raises the not-a-member error unless only_if_matches is
\* set and the first of its two or more elements has no child of the root, when it
\* returns without an error; in both cases no Leaf is stored for the text
C4_NonMember ==
    (last.op = "add" /\ EndsWithoutMember(last.signature)) =>
        LET elements == ElementsOf(last.signature)
        IN /\ ~Skipped(last.trie, elements, last.only_if_matches)
                => last.outcome = Raise(NotAMember, last.signature)
           /\ Skipped(last.trie, elements, last.only_if_matches)
                => last.outcome.ok /\ ~last.outcome.stored
           /\ NoLeafFor(last.trie, elements)

\* C4 witness: a class path was refused after a member of another class was stored
C4_Witness ==
    /\ last.op = "add"
    /\ last.signature = <<"L", "a", "/", "D">>
    /\ last.outcome = Raise(NotAMember, last.signature)
    /\ Len(added[1]) = 1
    /\ Reaches(tries[1], ElementsOf(last.signature))

\* C5: whenever an element of the pattern's path (the wildcard dropped) has no
\* matching child at its place, get_matching_rows returns no rows and raises nothing
C5_AbsentElement ==
    (Queried /\ Accepted(last.pattern)) =>
        LET all == ElementsOf(last.pattern)
            path == IF all[Len(all)][1] = "wildcard"
                    THEN SubSeq(all, 1, Len(all) - 1) ELSE all
        IN ~Reaches(tries[last.trie], path)
              => last.result.ok /\ last.result.rows = <<>>

\* C5 for the patterns of the grammar's documented shapes: at most one ";->"
C5_AbsentElementOfWellFormedPattern ==
    (Queried /\ Accepted(last.pattern) /\ MemberCount(ElementsOf(last.pattern)) <= 1) =>
        LET all == ElementsOf(last.pattern)
            path == IF all[Len(all)][1] = "wildcard"
                    THEN SubSeq(all, 1, Len(all) - 1) ELSE all
        IN ~Reaches(tries[last.trie], path)
              => last.result.ok /\ last.result.rows = <<>>

---------------------------------------------------------------------------
(* The comparison's claims *)

\* the flags a dict holds for a signature, whenAbsent if it has no such key
FlagsIn(dict, signature, whenAbsent) ==
    IF signature \notin DOMAIN dict THEN whenAbsent
    ELSE IF "None" \in DOMAIN dict[signature] THEN dict[signature].None
    ELSE <<>>

AllKeys == DOMAIN monolithicFlagsDict \union DOMAIN modularFlagsDict

\* C9: the call returns, in ascending order of signature and once each, the
\* (signature, modular flags, monolithic flags) of exactly the signatures of either
\* dict whose flag lists differ as lists (a signature the module lacks counting as
\* blocked, one the monolithic subset lacks as no flags); none when all agree
C9_Mismatches ==
    mismatches.call = TwoArguments =>
        LET result == mismatches.result
            Modular(s) == FlagsIn(modularFlagsDict, s, <<"blocked">>)
            Monolithic(s) == FlagsIn(monolithicFlagsDict, s, <<>>)
            differing == {s \in AllKeys : Modular(s) # Monolithic(s)}
        IN /\ mismatches.ok
           /\ \A i \in 1..Len(result) :
                 result[i] = <<result[i][1], Modular(result[i][1]), Monolithic(result[i][1])>>
           /\ {result[i][1] : i \in 1..Len(result)} = differing
           /\ \A i, j \in 1..Len(result) :
                 i < j => str_less(result[i][1], result[j][1])
           /\ (result = <<>>) <=> (\A s \in AllKeys : Modular(s) = Monolithic(s))

\* C9 witness: two mismatches were reported in order, the first
\* monolithic [public-api] against modular [blocked]
C9_Witness ==
    /\ mismatches.call = TwoArguments
    /\ Len(mismatches.result) = 2
    /\ mismatches.result[1] =
          << <<"L", "a", "/", "B", "$", "C", ARROW, "m">>, <<"blocked">>, <<"public-api">> >>
    /\ mismatches.result[2][1] = <<"L", "a", "/", "B", ARROW, "m">>
    /\ mismatches.result[2][2] = <<"blocked", "public-api">>
    /\ mismatches.result[2][3] = <<"public-api", "blocked">>

\* C10: the comparison takes the flag list to use for a signature the module lacks:
\* with default d a signature only the monolithic subset has, with flags F, is
\* reported as (signature, d, F) unless F = d, and a signature only the module
\* has, with flags F # [], as (signature, F, [])
C10_ImplicitDefault ==
    mismatches.call = ThreeArguments =>
        /\ mismatches.ok
        /\ \A s \in DOMAIN monolithicFlagsDict \ DOMAIN modularFlagsDict :
              LET F == FlagsIn(monolithicFlagsDict, s, <<>>)
                  reported == \E i \in 1..Len(mismatches.result) :
                                 mismatches.result[i] = <<s, implicitDefault, F>>
              IN reported <=> F # implicitDefault
        /\ \A s \in DOMAIN modularFlagsDict \ DOMAIN monolithicFlagsDict :
              LET F == FlagsIn(modularFlagsDict, s, <<>>)
              IN F # <<>> => \E i \in 1..Len(mismatches.result) :
                                 mismatches.result[i] = <<s, F, <<>> >>

\* C10 through the call the function does take: a signature only the monolithic
\* subset has is compared with [] and reported unless it has no flags
C10_MissingFromModularIsEmpty ==
    mismatches.call = TwoArguments =>
        \A s \in DOMAIN monolithicFlagsDict \ DOMAIN modularFlagsDict :
            LET F == FlagsIn(monolithicFlagsDict, s, <<>>)
            IN (\E i \in 1..Len(mismatches.result) :
                    mismatches.result[i] = <<s, <<>>, F>>) <=> F # <<>>

---------------------------------------------------------------------------
(* verify_overlaps.py: its own trie.  An element is the text "package:x",  *)
(* "class:x" or "member:x", the tag being one lexeme, or the wildcard "*"  *)
(* or "**" itself; a node has only its dict, a Leaf only its value.        *)

\* [prefix + x for x in parts]
prefixed(prefix, parts) == [i \in 1..Len(parts) |-> <<prefix>> \o parts[i]]

\* element.startswith(prefix)
startswith(element, prefix) == Len(element) >= 1 /\ element[1] = prefix

signatureToElements(signature) ==
    LET text == removeprefix(signature, "L")
        parts == split(text, ARROW)
        member == Tail(parts)
        elements == split(parts[1], "/")
        packages == SubSeq(elements, 1, Len(elements) - 1)
        className == elements[Len(elements)]
    IN  IF className \in {STAR, STARSTAR}
        THEN IF Len(member) # 0
             THEN Raise(WildcardAndMember, signature)
             ELSE [ok |-> TRUE,
                   elements |-> prefixed("package:", packages) \o <<className>>]
        ELSE [ok |-> TRUE,
              elements |-> prefixed("package:", packages)
                           \o prefixed("class:", split(className, "$"))
                           \o prefixed("member:", member)]

vo_InteriorNode == [class |-> "InteriorNode", nodes |-> <<>>]

vo_Leaf(value) == [class |-> "Leaf", value |-> value]

\* the end of add: the checks on the last element and the new Leaf
vo_add_leaf(node, lastElement, signature, value) ==
    IF ~startswith(lastElement, "member:")
    THEN [node |-> node, outcome |-> Raise(NotAMember, signature)]
    ELSE IF ~has_nodes(node)
    THEN [node |-> node, outcome |-> Raise(AttributeError, signature)]
    ELSE IF has_key(node.nodes, lastElement)
    THEN [node |-> node, outcome |-> Raise(DuplicateSignature, signature)]
    ELSE [node |-> [node EXCEPT !.nodes = set_item(node.nodes, lastElement, vo_Leaf(value))],
          outcome |-> [ok |-> TRUE]]

\* the loop of add over elements[:-1] from elements[i] on; the nodes it makes
\* stay in the trie when a later step raises
RECURSIVE vo_add_walk(_, _, _, _, _)
vo_add_walk(node, elements, i, signature, value) ==
    IF i = Len(elements)
    THEN vo_add_leaf(node, elements[i], signature, value)
    ELSE IF ~has_nodes(node)
    THEN [node |-> node, outcome |-> Raise(AttributeError, signature)]
    ELSE LET next_node == IF has_key(node.nodes, elements[i])
                          THEN get_item(node.nodes, elements[i])
                          ELSE vo_InteriorNode
             below == vo_add_walk(next_node, elements, i + 1, signature, value)
         IN [node |-> [node EXCEPT !.nodes = set_item(node.nodes, elements[i], below.node)],
             outcome |-> below.outcome]

\* InteriorNode.add of verify_overlaps.py
vo_add(self, signature, value) ==
    LET parsed == signatureToElements(signature)
    IN IF ~parsed.ok THEN [node |-> self, outcome |-> parsed]
       ELSE vo_add_walk(self, parsed.elements, 1, signature, value)

\* a "*" that selects the sub-packages too
vo_select_everything(selector, key) == TRUE

\* the selector lambdas of getMatchingRows, by name
vo_select(selector, key) ==
    IF selector = "not package" THEN ~startswith(key, "package:") ELSE TRUE

\* appendValues: a list of one-value lists, in the order of the dicts
RECURSIVE appendValues(_, _)
RECURSIVE appendValues_items(_, _, _)
appendValues_items(nodes, i, selector) ==
    IF i > Len(nodes) THEN <<>>
    ELSE (IF vo_select(selector, nodes[i].key)
          THEN appendValues(nodes[i].node, "all") ELSE <<>>)
         \o appendValues_items(nodes, i + 1, selector)

appendValues(node, selector) ==
    IF has_nodes(node) THEN appendValues_items(node.nodes, 1, selector)
    ELSE << <<node.value>> >>

\* chain.from_iterable
RECURSIVE from_iterable(_)
from_iterable(lists) ==
    IF lists = <<>> THEN <<>> ELSE Head(lists) \o from_iterable(Tail(lists))

\* the descent of getMatchingRows from elements[i] on
RECURSIVE vo_matching_walk(_, _, _, _)
vo_matching_walk(node, elements, i, selector) ==
    IF i > Len(elements)
    THEN [ok |-> TRUE, rows |-> from_iterable(appendValues(node, selector))]
    ELSE IF ~has_nodes(node)
    THEN [ok |-> FALSE, error |-> AttributeError]
    ELSE IF has_key(node.nodes, elements[i])
    THEN vo_matching_walk(get_item(node.nodes, elements[i]), elements, i + 1, selector)
    ELSE [ok |-> TRUE, rows |-> <<>>]

getMatchingRows(self, pattern) ==
    LET parsed == signatureToElements(pattern)
    IN IF ~parsed.ok THEN parsed
       ELSE LET all == parsed.elements
                lastElement == all[Len(all)]
                wildcard == lastElement \in {STAR, STARSTAR}
                elements == IF wildcard THEN SubSeq(all, 1, Len(all) - 1) ELSE all
                selector == IF wildcard /\ lastElement = STAR THEN "not package" ELSE "all"
            IN vo_matching_walk(self, elements, 1, selector)

\* read_flag_trie_from_stream from rows[i] on
RECURSIVE read_flag_trie_loop(_, _, _)
read_flag_trie_loop(trie, rows, i) ==
    IF i > Len(rows) THEN [ok |-> TRUE, trie |-> trie]
    ELSE LET done == vo_add(trie, rows[i].signature, rows[i])
         IN IF done.outcome.ok THEN read_flag_trie_loop(done.node, rows, i + 1)
            ELSE done.outcome

read_flag_trie_from_stream(rows) == read_flag_trie_loop(vo_InteriorNode, rows, 1)

Whitespace == {" ", "\n"}

\* str.rstrip()
RECURSIVE rstrip(_)
rstrip(text) ==
    IF text # <<>> /\ text[Len(text)] \in Whitespace
    THEN rstrip(SubSeq(text, 1, Len(text) - 1))
    ELSE text

\* dict[row["signature"]] = row for every row
RECURSIVE update_rows(_, _)
update_rows(dict, rows) ==
    IF rows = <<>> THEN dict
    ELSE update_rows([s \in DOMAIN dict \union {Head(rows).signature} |->
                         IF s = Head(rows).signature THEN Head(rows) ELSE dict[s]],
                     Tail(rows))

\* the loop of extract_subset_from_monolithic_flags_as_dict_from_stream
RECURSIVE extract_loop(_, _, _, _)
extract_loop(monolithic, stream, i, dict_signature_to_row) ==
    IF i > Len(stream) THEN [ok |-> TRUE, dict |-> dict_signature_to_row]
    ELSE LET pattern == rstrip(stream[i])
             matched == getMatchingRows(monolithic, pattern)
         IN IF ~matched.ok
            THEN [ok |-> FALSE, error |-> matched.error, pattern |-> pattern]
            ELSE extract_loop(monolithic, stream, i + 1,
                              update_rows(dict_signature_to_row, matched.rows))

extract_subset_from_monolithic_flags_as_dict_from_stream(monolithic, stream) ==
    extract_loop(monolithic, stream, 1, EmptyDict)

---------------------------------------------------------------------------
(* Overlap runs: main of verify_overlaps.py.  The monolithic flags are    *)
(* read into the trie, the subset of a patterns stream is extracted and    *)
(* compared with the flags of the module.                                  *)

MonolithicRowSet ==
    { [signature |-> <<"L", "a", "/", "B", ARROW, "m">>, None |-> <<"public-api">>],
      [signature |-> <<"L", "a", "/", "B", "$", "C", ARROW, "m">>],
      [signature |-> <<"L", "a", "/", "b", "/", "D", ARROW, "m">>, None |-> <<"blocked">>] }

MonolithicStreams == UNION {[1..n -> MonolithicRowSet] : n \in 0..MaxRows}

\* the lines of a patterns file, each with its line end
PatternLines ==
    { <<"L", "a", "/", "B", ARROW, "m", "\n">>,
      <<"L", "a", "/", "B", "\n">>,
      <<"L", "a", "/", "B", "$", "C", "\n">>,
      <<"a", "/", "*", "\n">>,
      <<"a", "/", "*", "*", " ", "\n">>,
      <<"L", "a", "/", "B", ARROW, "m", ARROW, "n", "\n">>,
      <<"a", "/", "*", ARROW, "m", "\n">> }

PatternStreams == UNION {[1..n -> PatternLines] : n \in 0..MaxPatterns}

\* the flags of the module, as read_signature_csv_from_stream_as_dict gives them
ModularDicts ==
    { EmptyDict,
      [s \in {<<"L", "a", "/", "B", ARROW, "m">>} |->
          [signature |-> s, None |-> <<"public-api">>]],
      [s \in {<<"L", "a", "/", "B", ARROW, "m">>,
              <<"L", "a", "/", "B", "$", "C", ARROW, "m">>} |->
          IF s = <<"L", "a", "/", "B", ARROW, "m">>
          THEN [signature |-> s, None |-> <<"blocked">>]
          ELSE [signature |-> s]] }

Unread == [read |-> FALSE]
NoExtraction == [call |-> "none"]

OverlapIdle ==
    /\ monolithicRows = <<>>
    /\ monolithicTrie = Unread
    /\ patternStream = <<>>
    /\ overlap = NoExtraction

NoPatternCall == [fn |-> "none"]
NotMatchedBack == [done |-> FALSE]

PatternsIdle ==
    /\ flagsStream = <<>>
    /\ splitPackages = {}
    /\ singlePackages = <<>>
    /\ packagePrefixes = <<>>
    /\ patternCall = NoPatternCall
    /\ matchedBack = NotMatchedBack

NotComputed == [done |-> FALSE]

ClassifierIdle ==
    /\ flagsFile = <<>>
    /\ bcpfClasses = {}
    /\ packageProperties = NotComputed

\* the build that build_hiddenapi_flags has not started yet
NotPrinted ==
    [state |-> "not started", stage |-> "before", lines |-> <<>>, pending |-> <<>>,
     after |-> 0]

\* diffs = None
NoDiffs == "None"

\* build_hiddenapi_flags before it is called
NotScanned ==
    [pc |-> "idle", read |-> 0, triple |-> <<>>, diffs |-> NoDiffs, entries |-> <<>>,
     scans |-> <<>>, result |-> [returned |-> FALSE]]

ReportIdle ==
    /\ buildOutput = NotPrinted
    /\ scanned = NotScanned

ToolsIdle == OverlapIdle /\ PatternsIdle /\ ClassifierIdle /\ ReportIdle

\* monolithicTrie = read_flag_trie_from_file(monolithicFlagsPath)
ReadFlagTrie(rows) ==
    /\ ~monolithicTrie.read
    /\ monolithicRows' = rows
    /\ monolithicTrie' = [read |-> TRUE, result |-> read_flag_trie_from_stream(rows)]
    /\ UNCHANGED <<patternStream, overlap, trieVars, grammarVars, compareVars, patternVars,
                   classifierVars, reportVars>>

\* monolithicFlagsSubsetDict = extract_subset_from_monolithic_flags_as_dict_from_file(...)
Extract(stream) ==
    /\ monolithicTrie.read
    /\ monolithicTrie.result.ok
    /\ overlap.call = "none"
    /\ LET done == extract_subset_from_monolithic_flags_as_dict_from_stream(
                       monolithicTrie.result.trie, stream)
       IN /\ overlap' = [call |-> "extract", result |-> done]
          /\ monolithicFlagsDict' = IF done.ok THEN done.dict ELSE monolithicFlagsDict
    /\ patternStream' = stream
    /\ UNCHANGED <<monolithicRows, monolithicTrie, modularFlagsDict, implicitDefault,
                   mismatches, trieVars, grammarVars, patternVars, classifierVars, reportVars>>

\* mismatchingSignatures = compare_signature_flags(monolithicFlagsSubsetDict, modularFlagsDict)
CompareSubset ==
    /\ overlap.call = "extract"
    /\ overlap.result.ok
    /\ Compare

---------------------------------------------------------------------------
(* The overlap verification's claims *)

Extracted == overlap.call = "extract" /\ overlap.result.ok

\* C11: the extraction of the subset, for any patterns stream on a trie that was
\* read, raises nothing: its outcome is a value it returns
C11_NeverRaises ==
    overlap.call = "extract" => overlap.result.ok

\* text ends with the lexemes of suffix
EndsWith(text, suffix) ==
    /\ Len(text) >= Len(suffix)
    /\ SubSeq(text, Len(text) - Len(suffix) + 1, Len(text)) = suffix

\* the pattern, as a text, selects the member signature, as a text: p/** every
\* signature beneath package path p, p/* those whose class is in p itself, a class
\* path its members and those of its nested classes, a signature itself
Selects(pattern, signature) ==
    LET p == Unprefixed(pattern)
        s == Unprefixed(signature)
        beneath(q) == IsPrefix(q, s) /\ Len(s) > Len(q)
    IN IF p = STARSTAR \/ EndsWith(p, <<"/", "*", "*">>)
       THEN beneath(SubSeq(p, 1, Len(p) - 2))
       ELSE IF p = STAR \/ EndsWith(p, <<"/", "*">>)
       THEN /\ beneath(SubSeq(p, 1, Len(p) - 1))
            /\ \A i \in Len(p)..Len(s) :
                   s[i] = "/" => \E j \in Len(p)..(i - 1) : s[j] = ARROW
       ELSE \/ s = p
            \/ beneath(p) /\ s[Len(p) + 1] \in {"$", ARROW}

RowsRead == {monolithicRows[i] : i \in 1..Len(monolithicRows)}

\* every order of the lines of a stream
Reorderings(stream) ==
    {[i \in 1..Len(stream) |-> stream[f[i]]] :
        f \in {g \in [1..Len(stream) -> 1..Len(stream)] :
                  \A i, j \in 1..Len(stream) : g[i] = g[j] => i = j}}

\* C12: the extraction returns the map from signature to row of exactly the rows
\* read whose signature some pattern of the stream selects; the map is the same
\* for every order of the patterns and when the patterns are given twice
C12_ExactSubset ==
    Extracted =>
        LET dict == overlap.result.dict
            trie == monolithicTrie.result.trie
        IN /\ DOMAIN dict = {row.signature : row \in
                                {r \in RowsRead : \E i \in 1..Len(patternStream) :
                                    Selects(rstrip(patternStream[i]), r.signature)}}
           /\ \A s \in DOMAIN dict : dict[s] \in RowsRead /\ dict[s].signature = s
           /\ \A other \in Reorderings(patternStream) :
                 extract_subset_from_monolithic_flags_as_dict_from_stream(trie, other)
                     = overlap.result
           /\ extract_subset_from_monolithic_flags_as_dict_from_stream(
                  trie, patternStream \o patternStream) = overlap.result

\* C12 witness: a signature and its class, as two patterns, gave the two rows of
\* the class out of the three rows read
C12_Witness ==
    /\ Extracted
    /\ Len(monolithicRows) = 3
    /\ patternStream = << <<"L", "a", "/", "B", ARROW, "m", "\n">>,
                          <<"L", "a", "/", "B", "\n">> >>
    /\ DOMAIN overlap.result.dict = { <<"L", "a", "/", "B", ARROW, "m">>,
                                      <<"L", "a", "/", "B", "$", "C", ARROW, "m">> }

---------------------------------------------------------------------------
(* signature_patterns.py.  A package is a text such as a/b; an error       *)
(* message is a record of its kind and of the names it prints.             *)

\* str.replace(old, new), old and new single characters
replace(text, old, new) ==
    [i \in 1..Len(text) |-> IF text[i] = old THEN new ELSE text[i]]

slash_package_to_dot_package(pkg) == replace(pkg, "/", ".")

slash_packages_to_dot_packages(pkgs) ==
    [i \in 1..Len(pkgs) |-> slash_package_to_dot_package(pkgs[i])]

\* text.rsplit(sep, maxsplit=1)[0]
rsplit_first(text, sep) ==
    IF \E i \in 1..Len(text) : text[i] = sep
    THEN LET i == CHOOSE k \in 1..Len(text) :
                     text[k] = sep /\ \A j \in (k + 1)..Len(text) : text[j] # sep
         IN SubSeq(text, 1, i - 1)
    ELSE text

\* text.split(sep, maxsplit=1)[0]
split_first(text, sep) == split(text, sep)[1]

\* text.startswith(prefix), prefix a text
str_startswith(text, prefix) ==
    Len(prefix) <= Len(text) /\ SubSeq(text, 1, Len(prefix)) = prefix

\* is_split_package with the split set taken for true when it is not empty
is_split_package_any(split_packages, pkg) == split_packages # {}

is_split_package(split_packages, pkg) ==
    split_packages # {} /\ (pkg \in split_packages \/ <<"*">> \in split_packages)

NotMatched == [matched |-> FALSE]

\* a prefix matches whatever starts with it
matched_by_package_prefix_pattern_no_boundary(package_prefixes, i, prefix) ==
    IF \E k \in 1..Len(package_prefixes) : str_startswith(prefix, package_prefixes[k])
    THEN [matched |-> TRUE,
          prefix |-> package_prefixes[CHOOSE k \in 1..Len(package_prefixes) :
                                          str_startswith(prefix, package_prefixes[k])]]
    ELSE NotMatched

\* matched_by_package_prefix_pattern from package_prefixes[i] on: the prefix
\* that matches, or False
RECURSIVE matched_by_package_prefix_pattern(_, _, _)
matched_by_package_prefix_pattern(package_prefixes, i, prefix) ==
    IF i > Len(package_prefixes) THEN NotMatched
    ELSE LET packagePrefix == package_prefixes[i]
         IN IF prefix = packagePrefix
            THEN [matched |-> TRUE, prefix |-> packagePrefix]
            ELSE IF str_startswith(prefix, packagePrefix)
                    /\ prefix[Len(packagePrefix) + 1] = "/"
            THEN [matched |-> TRUE, prefix |-> packagePrefix]
            ELSE matched_by_package_prefix_pattern(package_prefixes, i + 1, prefix)

\* nothing taken for a match
never_truthy(returned) == FALSE

\* the truth of what matched_by_package_prefix_pattern returned: False and ""
\* are false
truthy(returned) == returned.matched /\ returned.prefix # <<>>

validate_package_is_not_matched_by_package_prefix(package_type, pkg, package_prefixes) ==
    LET package_prefix == matched_by_package_prefix_pattern(package_prefixes, 1, pkg)
    IN IF truthy(package_prefix)
       THEN << [error |-> "is matched by package prefix",
                package_type |-> package_type,
                package |-> slash_package_to_dot_package(pkg),
                package_prefix |-> slash_package_to_dot_package(package_prefix.prefix)] >>
       ELSE <<>>

\* the loop of validate_package_prefixes over the split packages, in the order
\* the set gives them
RECURSIVE validate_split_loop(_, _, _)
validate_split_loop(split_packages, i, package_prefixes) ==
    IF i > Len(split_packages) THEN <<>>
    ELSE (IF split_packages[i] = <<"*">>
          THEN << [error |-> "split package '*' conflicts with all package prefixes",
                   package_prefixes |-> slash_packages_to_dot_packages(package_prefixes)] >>
          ELSE validate_package_is_not_matched_by_package_prefix(
                   "split package", split_packages[i], package_prefixes))
         \o validate_split_loop(split_packages, i + 1, package_prefixes)

RECURSIVE validate_single_loop(_, _, _)
validate_single_loop(single_packages, i, package_prefixes) ==
    IF i > Len(single_packages) THEN <<>>
    ELSE validate_package_is_not_matched_by_package_prefix(
             "single package", single_packages[i], package_prefixes)
         \o validate_single_loop(single_packages, i + 1, package_prefixes)

\* validate_package_prefixes, split_packages in the order of iteration
validate_package_prefixes(split_packages, single_packages, package_prefixes) ==
    IF Len(package_prefixes) = 0 THEN <<>>
    ELSE validate_split_loop(split_packages, 1, package_prefixes)
         \o validate_single_loop(single_packages, 1, package_prefixes)

\* validate_split_packages that refuses the wildcard alone too
validate_split_packages_any_wildcard(split_packages) ==
    IF <<"*">> \in split_packages
    THEN << [error |-> "split packages contain both the wildcard and specific packages"] >>
    ELSE <<>>

validate_split_packages(split_packages) ==
    IF <<"*">> \in split_packages /\ Cardinality(split_packages) > 1
    THEN << [error |-> "split packages contain both the wildcard and specific packages"] >>
    ELSE <<>>

dot_package_to_slash_package(pkg) == replace(pkg, ".", "/")

dot_packages_to_slash_packages(pkgs) ==
    [i \in 1..Len(pkgs) |-> dot_package_to_slash_package(pkgs[i])]

\* the loop of validate_single_packages from single_packages[i] on
RECURSIVE overlaps_loop(_, _, _)
overlaps_loop(split_packages, single_packages, i) ==
    IF i > Len(single_packages) THEN <<>>
    ELSE (IF single_packages[i] \in split_packages THEN <<single_packages[i]>> ELSE <<>>)
         \o overlaps_loop(split_packages, single_packages, i + 1)

validate_single_packages(split_packages, single_packages) ==
    LET overlaps == overlaps_loop(split_packages, single_packages, 1)
    IN IF overlaps # <<>>
       THEN << [error |-> "single_packages and split_packages overlap",
                packages |-> overlaps] >>
       ELSE <<>>

\* print_and_exit(errors): the errors printed and the exit status 1
print_and_exit(errors) == [exit |-> 1, printed |-> errors]

RECURSIVE insort(_, _)
insort(sortedList, x) ==
    IF sortedList = <<>> THEN <<x>>
    ELSE IF str_less(x, Head(sortedList)) THEN <<x>> \o sortedList
    ELSE <<Head(sortedList)>> \o insort(Tail(sortedList), x)

\* the list left as it is
list_unsorted(list) == list

RECURSIVE list_sort(_)
list_sort(list) ==
    IF list = <<>> THEN <<>>
    ELSE insort(list_sort(SubSeq(list, 1, Len(list) - 1)), list[Len(list)])

\* set(list)
set_of(list) == {list[i] : i \in 1..Len(list)}

\* the loop of produce_patterns_from_stream over the rows from rows[i] on
RECURSIVE produce_loop(_, _, _, _, _, _)
produce_loop(rows, i, split_packages, single_packages, patterns, unmatched_packages) ==
    IF i > Len(rows)
    THEN [patterns |-> patterns, unmatched_packages |-> unmatched_packages]
    ELSE LET signature == rows[i]
             text == removeprefix(signature, "L")
             qualified_class_name == split(text, ARROW)[1]
             pkg == rsplit_first(qualified_class_name, "/")
         IN IF is_split_package(split_packages, pkg)
            THEN produce_loop(rows, i + 1, split_packages, single_packages,
                              patterns \union {split_first(qualified_class_name, "$")},
                              unmatched_packages)
            ELSE IF pkg \in single_packages
            THEN produce_loop(rows, i + 1, split_packages, single_packages,
                              patterns \union {pkg \o <<"/", "*">>},
                              unmatched_packages)
            ELSE produce_loop(rows, i + 1, split_packages, single_packages,
                              patterns, unmatched_packages \union {pkg})

\* produce_patterns_from_stream: (patterns, errors)
produce_patterns_from_stream(stream, split_packages, single_packages, package_prefixes) ==
    LET read == produce_loop(stream, 1, split_packages, set_of(single_packages), {}, {})
        unmatched_packages ==
            {p \in read.unmatched_packages :
                ~truthy(matched_by_package_prefix_pattern(package_prefixes, 1, p))}
        errors ==
            IF unmatched_packages # {}
            THEN << [error |-> "The following packages were unexpected",
                     packages |-> slash_packages_to_dot_packages(sorted(unmatched_packages))] >>
            ELSE <<>>
        patterns ==
            {p \in read.patterns :
                ~truthy(matched_by_package_prefix_pattern(package_prefixes, 1, p))}
    IN [patterns |-> list_sort(sorted(patterns)
                               \o [k \in 1..Len(package_prefixes) |->
                                      package_prefixes[k] \o <<"/", "*", "*">>]),
        errors |-> errors]

---------------------------------------------------------------------------
(* Pattern runs: the functions of signature_patterns.py called on a flags *)
(* stream and on the three package properties.                             *)

PackageA == <<"a">>
PackageAB == <<"a", "/", "b">>
PackageAb == <<"a", "b">>
PackageLa == <<"L", "a">>

FlagSignatures ==
    { <<"L", "a", "/", "B", ARROW, "m">>,
      <<"L", "a", "/", "B", "$", "C", ARROW, "m">>,
      <<"L", "a", "/", "b", "/", "D", ARROW, "m">>,
      <<"L", "a", "b", "/", "B", ARROW, "m">>,
      <<"L", "L", "a", "/", "B", ARROW, "m">> }

FlagStreams == UNION {[1..n -> FlagSignatures] : n \in 0..MaxRows}

SplitPackageSets == SUBSET {<<"*">>, PackageA, PackageAb}

SinglePackageLists ==
    { <<>>, <<PackageA>>, <<PackageAB>>, <<PackageAb>>, <<PackageA, PackageAb>> }

PackagePrefixLists ==
    { <<>>, <<PackageA>>, <<PackageAB>>, <<PackageAb>>, <<PackageAB, PackageAb>> }

\* the orders in which a set can be iterated
Orders(set) ==
    {order \in [1..Cardinality(set) -> set] :
        \A i, j \in 1..Cardinality(set) : order[i] = order[j] => i = j}

\* errors = validate_split_packages(split_packages)
ValidateSplitPackages ==
    /\ patternCall.fn = "none"
    /\ patternCall' = [fn |-> "validate_split_packages",
                       errors |-> validate_split_packages(splitPackages)]
    /\ UNCHANGED <<flagsStream, splitPackages, singlePackages, packagePrefixes,
                   matchedBack, trieVars, grammarVars, compareVars, overlapVars,
                   classifierVars, reportVars>>

\* errors = validate_package_prefixes(split_packages, single_packages, package_prefixes)
ValidatePackagePrefixes(order) ==
    /\ patternCall.fn = "none"
    /\ patternCall' = [fn |-> "validate_package_prefixes",
                       errors |-> validate_package_prefixes(order, singlePackages,
                                                            packagePrefixes)]
    /\ UNCHANGED <<flagsStream, splitPackages, singlePackages, packagePrefixes,
                   matchedBack, trieVars, grammarVars, compareVars, overlapVars,
                   classifierVars, reportVars>>

\* patterns, errors = produce_patterns_from_stream(...)
ProducePatterns ==
    /\ patternCall.fn = "none"
    /\ patternCall' = [fn |-> "produce_patterns_from_stream",
                       result |-> produce_patterns_from_stream(
                                      flagsStream, splitPackages, singlePackages,
                                      packagePrefixes)]
    /\ UNCHANGED <<flagsStream, splitPackages, singlePackages, packagePrefixes,
                   matchedBack, trieVars, grammarVars, compareVars, overlapVars,
                   classifierVars, reportVars>>

\* main(args): split_package, single_package and package_prefix are the values of
\* the options, in dotted form; split_order is the order in which the set of
\* split packages is iterated
main(split_package, single_package, package_prefix, flags, split_order) ==
    LET split_packages == set_of(dot_packages_to_slash_packages(split_package))
        single_packages == dot_packages_to_slash_packages(single_package)
        package_prefixes == dot_packages_to_slash_packages(package_prefix)
        split_errors == validate_split_packages(split_packages)
        single_errors == validate_single_packages(split_packages, single_packages)
        prefix_errors == validate_package_prefixes(split_order, single_packages,
                                                   package_prefixes)
        produced == produce_patterns_from_stream(flags, split_packages, single_packages,
                                                 package_prefixes)
    IN IF split_errors # <<>> THEN print_and_exit(split_errors)
       ELSE IF single_errors # <<>> THEN print_and_exit(single_errors)
       ELSE IF prefix_errors # <<>> THEN print_and_exit(prefix_errors)
       ELSE IF produced.errors # <<>> THEN print_and_exit(produced.errors)
       ELSE [exit |-> 0, written |-> produced.patterns]

\* signature_patterns.py run with the properties as its options
Main(order) ==
    /\ patternCall.fn = "none"
    /\ patternCall' = [fn |-> "main",
                       result |-> main(slash_packages_to_dot_packages(order),
                                       slash_packages_to_dot_packages(singlePackages),
                                       slash_packages_to_dot_packages(packagePrefixes),
                                       flagsStream, order)]
    /\ UNCHANGED <<flagsStream, splitPackages, singlePackages, packagePrefixes,
                   matchedBack, trieVars, grammarVars, compareVars, overlapVars,
                   classifierVars, reportVars>>

\* a trie of the signatures of rows[i..], each signature added with itself as value
RECURSIVE trie_of(_, _, _)
trie_of(trie, rows, i) ==
    IF i > Len(rows) THEN [ok |-> TRUE, trie |-> trie]
    ELSE LET done == add(trie, rows[i], rows[i], FALSE)
         IN IF done.outcome.ok THEN trie_of(done.node, rows, i + 1)
            ELSE done.outcome

\* the values get_matching_rows gives for patterns[i..]
RECURSIVE matching_rows_of(_, _, _)
matching_rows_of(trie, patterns, i) ==
    IF i > Len(patterns) THEN [ok |-> TRUE, rows |-> {}]
    ELSE LET matched == get_matching_rows(trie, patterns[i])
             rest == matching_rows_of(trie, patterns, i + 1)
         IN IF ~matched.ok THEN matched
            ELSE IF ~rest.ok THEN rest
            ELSE [ok |-> TRUE, rows |-> set_of(matched.rows) \union rest.rows]

\* the produced patterns matched against a trie of the set of signatures of the stream
MatchBack ==
    /\ patternCall.fn = "produce_patterns_from_stream"
    /\ ~matchedBack.done
    /\ LET built == trie_of(signature_trie, sorted(set_of(flagsStream)), 1)
       IN matchedBack' =
             [done |-> TRUE,
              result |-> IF built.ok
                         THEN matching_rows_of(built.trie, patternCall.result.patterns, 1)
                         ELSE built]
    /\ UNCHANGED <<flagsStream, splitPackages, singlePackages, packagePrefixes,
                   patternCall, trieVars, grammarVars, compareVars, overlapVars,
                   classifierVars, reportVars>>

---------------------------------------------------------------------------
(* The claims about signature_patterns.py *)

\* C13: validate_split_packages returns an error exactly when the split packages
\* hold the marker '*' together with at least one specific package
C13_SplitPackages ==
    patternCall.fn = "validate_split_packages" =>
        (patternCall.errors # <<>>
            <=> /\ <<"*">> \in splitPackages
                /\ \E p \in splitPackages : p # <<"*">>)

\* C13 witness: '*' with the package a was refused
C13_Witness ==
    /\ patternCall.fn = "validate_split_packages"
    /\ splitPackages = {<<"*">>, PackageA}
    /\ Len(patternCall.errors) = 1

\* package P equals Q or lies beneath Q at a '/'
Beneath(P, Q) ==
    \/ P = Q
    \/ /\ Len(P) > Len(Q)
       /\ SubSeq(P, 1, Len(Q)) = Q
       /\ P[Len(Q) + 1] = "/"

Dotted(pkg) == [i \in 1..Len(pkg) |-> IF pkg[i] = "/" THEN "." ELSE pkg[i]]

\* an error of the list names package P and prefix Q
NamesBoth(errors, P, Q) ==
    \E i \in 1..Len(errors) :
        /\ errors[i].error = "is matched by package prefix"
        /\ errors[i].package = Dotted(P)
        /\ errors[i].package_prefix = Dotted(Q)

DeclaredPrefixes == {packagePrefixes[i] : i \in 1..Len(packagePrefixes)}

SplitAndSinglePackages ==
    (splitPackages \ {<<"*">>}) \union {singlePackages[i] : i \in 1..Len(singlePackages)}

\* C14: validate_package_prefixes names the package and the prefix for every split
\* or single package P and declared prefix Q with P beneath Q or Q beneath P,
\* reports '*' whenever a prefix is declared, and reports nothing otherwise
C14_EitherDirection ==
    patternCall.fn = "validate_package_prefixes" =>
        LET errors == patternCall.errors
            conflicts == {pair \in SplitAndSinglePackages \X DeclaredPrefixes :
                             Beneath(pair[1], pair[2]) \/ Beneath(pair[2], pair[1])}
        IN /\ \A pair \in conflicts : NamesBoth(errors, pair[1], pair[2])
           /\ (<<"*">> \in splitPackages /\ packagePrefixes # <<>>)
                 => \E i \in 1..Len(errors) :
                        errors[i].error = "split package '*' conflicts with all package prefixes"
           /\ (conflicts = {} /\ ~(<<"*">> \in splitPackages /\ packagePrefixes # <<>>))
                 => errors = <<>>

\* C14 amended: validate_package_prefixes names the package and a prefix for every
\* split or single package that equals a declared prefix or lies beneath one at a
\* '/', and for no other; a prefix beneath a package is not reported; '*' is
\* reported exactly when a prefix is declared; there is one error for each
C14_PackageBeneathPrefix ==
    patternCall.fn = "validate_package_prefixes" =>
        LET errors == patternCall.errors
        IN /\ \A P \in SplitAndSinglePackages :
                 (\E Q \in DeclaredPrefixes : Beneath(P, Q))
                     <=> (\E Q \in DeclaredPrefixes : Beneath(P, Q) /\ NamesBoth(errors, P, Q))
           /\ (<<"*">> \in splitPackages /\ packagePrefixes # <<>>)
                 <=> \E i \in 1..Len(errors) :
                        errors[i].error = "split package '*' conflicts with all package prefixes"
           /\ Len(errors) =
                 Cardinality({P \in splitPackages \ {<<"*">>} :
                                 \E Q \in DeclaredPrefixes : Beneath(P, Q)})
                 + Cardinality({i \in 1..Len(singlePackages) :
                                   \E Q \in DeclaredPrefixes : Beneath(singlePackages[i], Q)})
                 + (IF <<"*">> \in splitPackages /\ packagePrefixes # <<>> THEN 1 ELSE 0)

\* C14 witness: the single package a/b was reported as matched by the prefix a
C14_Witness ==
    /\ patternCall.fn = "validate_package_prefixes"
    /\ singlePackages = <<PackageAB>>
    /\ packagePrefixes = <<PackageA>>
    /\ patternCall.errors = << [error |-> "is matched by package prefix",
                                package_type |-> "single package",
                                package |-> <<"a", ".", "b">>,
                                package_prefix |-> <<"a">>] >>

Produced == patternCall.fn = "produce_patterns_from_stream"

\* the package of the class of a signature: its class path up to the last '/'
PackageOf(signature) ==
    LET path == ClassPath(signature)
    IN IF \E i \in 1..Len(path) : path[i] = "/"
       THEN SubSeq(path, 1, (CHOOSE i \in 1..Len(path) :
                                path[i] = "/" /\ \A j \in (i + 1)..Len(path) : path[j] # "/") - 1)
       ELSE path

\* the class path cut at the first '$'
OuterClassOf(signature) ==
    LET path == ClassPath(signature)
    IN IF \E i \in 1..Len(path) : path[i] = "$"
       THEN SubSeq(path, 1, (CHOOSE i \in 1..Len(path) :
                                path[i] = "$" /\ \A j \in 1..(i - 1) : path[j] # "$") - 1)
       ELSE path

SignaturesRead == {flagsStream[i] : i \in 1..Len(flagsStream)}

IsSplit(p) == <<"*">> \in splitPackages \/ p \in splitPackages
IsSingle(p) == \E i \in 1..Len(singlePackages) : singlePackages[i] = p
UnderPrefix(text) == \E Q \in DeclaredPrefixes : Beneath(text, Q)

\* the pattern a signature asks for: its outer class when its package is split,
\* else its package with "/*" when the package is single, else none
PatternFor(signature) ==
    IF IsSplit(PackageOf(signature)) THEN {OuterClassOf(signature)}
    ELSE IF IsSingle(PackageOf(signature)) THEN {PackageOf(signature) \o <<"/", "*">>}
    ELSE {}

UnmatchedPackages ==
    {PackageOf(sig) : sig \in {x \in SignaturesRead :
        ~IsSplit(PackageOf(x)) /\ ~IsSingle(PackageOf(x)) /\ ~UnderPrefix(PackageOf(x))}}

PrefixPatterns == {Q \o <<"/", "*", "*">> : Q \in DeclaredPrefixes}

PatternsReturned ==
    {patternCall.result.patterns[i] : i \in 1..Len(patternCall.result.patterns)}

\* the packages the errors of produce_patterns_from_stream name
PackagesReported ==
    UNION {set_of(patternCall.result.errors[i].packages) :
              i \in 1..Len(patternCall.result.errors)}

\* C15: every signature read gives its outer-class pattern when its package is
\* split (or the split set is '*'), else its package's "/*" pattern when the
\* package is single, else its package is reported unless a declared prefix
\* covers it; a pattern is produced once however many signatures give it
C15_PatternOfEachSignature ==
    Produced =>
        LET patterns == patternCall.result.patterns
        IN /\ \A sig \in SignaturesRead :
                 \A p \in PatternFor(sig) : p \in PatternsReturned <=> ~UnderPrefix(p)
           /\ PatternsReturned \ PrefixPatterns
                 \subseteq UNION {PatternFor(sig) : sig \in SignaturesRead}
           /\ PackagesReported = {Dotted(p) : p \in UnmatchedPackages}
           /\ \A i, j \in 1..Len(patterns) :
                 (patterns[i] = patterns[j] /\ patterns[i] \notin PrefixPatterns) => i = j

\* C15 witness: a package both split and single gave class patterns, a nested class
\* and its outer class gave one pattern, and another package was reported
C15_Witness ==
    /\ Produced
    /\ splitPackages = {PackageA}
    /\ singlePackages = <<PackageA, PackageAb>>
    /\ packagePrefixes = <<>>
    /\ flagsStream = << <<"L", "a", "/", "B", "$", "C", ARROW, "m">>,
                        <<"L", "a", "/", "B", ARROW, "m">>,
                        <<"L", "a", "/", "b", "/", "D", ARROW, "m">> >>
    /\ patternCall.result.patterns = << <<"a", "/", "B">> >>
    /\ PackagesReported = { <<"a", ".", "b">> }

\* C16: the list returned holds q/** for every declared prefix q, holds no other
\* pattern that equals a declared prefix or lies beneath one, is in ascending
\* order, and is the same for every order and repetition of the rows
C16_PrefixPatternsSorted ==
    Produced =>
        LET patterns == patternCall.result.patterns
        IN /\ PrefixPatterns \subseteq PatternsReturned
           /\ \A p \in PatternsReturned \ PrefixPatterns : ~UnderPrefix(p)
           /\ \A i, j \in 1..Len(patterns) :
                 i < j => (patterns[i] = patterns[j] \/ str_less(patterns[i], patterns[j]))
           /\ \A other \in Reorderings(flagsStream) :
                 produce_patterns_from_stream(other, splitPackages, singlePackages,
                                              packagePrefixes) = patternCall.result
           /\ produce_patterns_from_stream(flagsStream \o flagsStream, splitPackages,
                                           singlePackages, packagePrefixes)
                 = patternCall.result

\* C16 witness: with the prefix a/b declared and a split, the class of a/b gave way
\* to a/b/** and the patterns came out sorted
C16_Witness ==
    /\ Produced
    /\ splitPackages = {<<"*">>}
    /\ packagePrefixes = <<PackageAB>>
    /\ flagsStream = << <<"L", "a", "b", "/", "B", ARROW, "m">>,
                        <<"L", "a", "/", "b", "/", "D", ARROW, "m">>,
                        <<"L", "a", "/", "B", ARROW, "m">> >>
    /\ patternCall.result.patterns =
          << <<"a", "/", "B">>, <<"a", "/", "b", "/", "*", "*">>, <<"a", "b", "/", "B">> >>

\* C18 as claimed: the errors list has one entry for each unmatched package
C18_OneEntryPerPackage ==
    Produced => Len(patternCall.result.errors) = Cardinality(UnmatchedPackages)

\* C18 amended: with unmatched packages the call still returns the patterns of the
\* other signatures, and its errors list has one entry that names every unmatched
\* package once, in ascending order; the list is empty exactly when no package is
\* unmatched
C18_UnmatchedReported ==
    Produced =>
        LET errors == patternCall.result.errors
        IN /\ errors = <<>> <=> UnmatchedPackages = {}
           /\ Len(errors) <= 1
           /\ \A e \in 1..Len(errors) :
                 /\ errors[e].error = "The following packages were unexpected"
                 /\ set_of(errors[e].packages) = {Dotted(p) : p \in UnmatchedPackages}
                 /\ Len(errors[e].packages) = Cardinality(UnmatchedPackages)
                 /\ \A i, j \in 1..Len(errors[e].packages) :
                       i < j => str_less(errors[e].packages[i], errors[e].packages[j])
           /\ \A sig \in SignaturesRead :
                 \A p \in PatternFor(sig) : p \in PatternsReturned <=> ~UnderPrefix(p)

\* C18 witness: two packages were unmatched, named in one entry, and the pattern
\* of the single package was returned with it
C18_Witness ==
    /\ Produced
    /\ splitPackages = {}
    /\ singlePackages = <<PackageA>>
    /\ packagePrefixes = <<>>
    /\ patternCall.result.patterns = << <<"a", "/", "*">> >>
    /\ patternCall.result.errors =
          << [error |-> "The following packages were unexpected",
              packages |-> << <<"a", ".", "b">>, <<"a", "b">> >>] >>

\* C17: when produce_patterns_from_stream returns no errors, the patterns it
\* returns select, from a trie of exactly the signatures read, every one of them
C17_PatternsReproduceSignatures ==
    (matchedBack.done /\ patternCall.result.errors = <<>>) =>
        /\ matchedBack.result.ok
        /\ matchedBack.result.rows = SignaturesRead

---------------------------------------------------------------------------
(* analyze_bcpf.py: the hidden API package properties.  The trie is the    *)
(* one of signature_trie.py; the value of a class is its provider.         *)

ClassProvider_BCPF == "bcpf"
ClassProvider_OTHER == "other"

_FAKE_MEMBER == <<ARROW, "f", "a", "k", "e", "(", ")", "V">>

NotInitialized == "classes has not been initialized"

line_to_signature(line) == split(line, ",")[1]

signature_to_class(signature) == split(signature, ARROW)[1]

\* the loop of load_all_flags over the lines from lines[i] on
RECURSIVE load_all_flags_loop(_, _, _)
load_all_flags_loop(lines, i, _classes) ==
    IF i > Len(lines) THEN _classes
    ELSE LET line == rstrip(lines[i])
             signature == line_to_signature(line)
             class_name == signature_to_class(signature)
         IN load_all_flags_loop(lines, i + 1, _classes \union {class_name})

\* node.child_nodes(): the values of the dict of an InteriorNode, none for a Leaf
child_nodes(node) ==
    IF has_nodes(node) THEN [i \in 1..Len(node.nodes) |-> node.nodes[i].node] ELSE <<>>

\* set(child.get_matching_rows("*"))
direct_providers(child) == set_of(get_matching_rows(child, STAR).rows)

\* the providers of the classes of the package alone
providers_without_sub_packages(child) == direct_providers(child)

\* set(child.get_matching_rows("**"))
all_providers(child) == set_of(get_matching_rows(child, STARSTAR).rows)

\* a node of any type taken for a package
is_any_node(child) == TRUE

\* child.type == "package"
is_package(child) == child.type = "package"

NoPackages == [split_packages |-> <<>>, single_packages |-> <<>>, package_prefixes |-> <<>>]

\* recurse_hiddenapi_packages_trie: the three lists after the call
RECURSIVE recurse_hiddenapi_packages_trie(_, _)
RECURSIVE recurse_loop(_, _, _)
recurse_loop(nodes, i, lists) ==
    IF i > Len(nodes) THEN lists
    ELSE LET child == nodes[i]
         IN IF ~is_package(child)
            THEN recurse_loop(nodes, i + 1, lists)
            ELSE LET package == replace(child.selector, "/", ".")
                     providers == all_providers(child)
                 IN IF providers = {ClassProvider_BCPF}
                    THEN recurse_loop(nodes, i + 1,
                            [lists EXCEPT !.package_prefixes = Append(@, package)])
                    ELSE IF providers = {ClassProvider_OTHER}
                    THEN recurse_loop(nodes, i + 1, lists)
                    ELSE LET direct == direct_providers(child)
                             classified ==
                                 IF direct = {} THEN lists
                                 ELSE IF direct = {ClassProvider_BCPF}
                                 THEN [lists EXCEPT !.single_packages = Append(@, package)]
                                 ELSE IF direct = {ClassProvider_OTHER} THEN lists
                                 ELSE IF ClassProvider_BCPF \in direct
                                 THEN [lists EXCEPT !.split_packages = Append(@, package)]
                                 ELSE lists
                         IN recurse_loop(nodes, i + 1,
                                recurse_hiddenapi_packages_trie(child, classified))

recurse_hiddenapi_packages_trie(node, lists) == recurse_loop(child_nodes(node), 1, lists)

\* trie.add(class_name + _FAKE_MEMBER, ClassProvider.BCPF) for the sorted classes
RECURSIVE add_classes(_, _, _)
add_classes(trie, sorted_classes, i) ==
    IF i > Len(sorted_classes) THEN [ok |-> TRUE, trie |-> trie]
    ELSE LET call == add(trie, sorted_classes[i] \o _FAKE_MEMBER, ClassProvider_BCPF, FALSE)
         IN IF ~call.outcome.ok THEN call.outcome
            ELSE add_classes(call.node, sorted_classes, i + 1)

\* the loop of compute_hiddenapi_package_properties over the lines of the flags file
RECURSIVE add_monolithic_classes(_, _, _, _, _)
add_monolithic_classes(trie, lines, i, monolithic_classes, _classes) ==
    IF i > Len(lines) THEN [ok |-> TRUE, trie |-> trie]
    ELSE LET signature == line_to_signature(lines[i])
             class_name == signature_to_class(signature)
         IN IF class_name \notin monolithic_classes /\ class_name \notin _classes
            THEN LET call == add(trie, class_name \o _FAKE_MEMBER, ClassProvider_OTHER, TRUE)
                 IN IF ~call.outcome.ok THEN call.outcome
                    ELSE add_monolithic_classes(call.node, lines, i + 1,
                            monolithic_classes \union {class_name}, _classes)
            ELSE add_monolithic_classes(trie, lines, i + 1, monolithic_classes, _classes)

\* compute_hiddenapi_package_properties; the property classes raises while
\* _classes is empty
compute_hiddenapi_package_properties(_classes, lines) ==
    IF _classes = {} THEN [ok |-> FALSE, error |-> NotInitialized]
    ELSE LET provided == add_classes(signature_trie, sorted(_classes), 1)
         IN IF ~provided.ok THEN provided
            ELSE LET both == add_monolithic_classes(provided.trie, lines, 1, {}, _classes)
                 IN IF ~both.ok THEN both
                    ELSE [ok |-> TRUE] @@
                         recurse_hiddenapi_packages_trie(both.trie, NoPackages)

---------------------------------------------------------------------------
(* Classifier runs: load_all_flags on a file of at most MaxLines lines,    *)
(* compute_hiddenapi_package_properties on a monolithic file of at most    *)
(* MaxLines lines.                                                         *)

ClassNames ==
    { <<"L", "a", "/", "B">>,
      <<"L", "a", "/", "B", "$", "C">>,
      <<"L", "a", "/", "b", "/", "C">>,
      <<"L", "a", "/", "b", "/", "D">>,
      <<"L", "a", "/", "b", "/", "c", "/", "D">>,
      <<"L", "b", "/", "C">> }

\* the line of a class in a flags file: the classes of package a.b with flags
FlagLine(class_name) ==
    class_name \o <<ARROW, "m">>
        \o (IF Len(class_name) = 6 THEN <<",", "blocked">> ELSE <<>>) \o <<"\n">>

FlagLines == {FlagLine(c) : c \in ClassNames}

FlagFiles == UNION {[1..n -> FlagLines] : n \in 0..MaxLines}

\* load_all_flags on the file all-flags.csv of the bootclasspath_fragment
LoadAllFlags(lines) ==
    /\ bcpfClasses = {}
    /\ ~packageProperties.done
    /\ bcpfClasses' = load_all_flags_loop(lines, 1, bcpfClasses)
    /\ UNCHANGED <<flagsFile, packageProperties, trieVars, grammarVars, compareVars,
                   overlapVars, patternVars, reportVars>>

\* compute_hiddenapi_package_properties()
ComputeHiddenapiPackageProperties ==
    /\ ~packageProperties.done
    /\ packageProperties' =
          [done |-> TRUE,
           result |-> compute_hiddenapi_package_properties(bcpfClasses, flagsFile)]
    /\ UNCHANGED <<flagsFile, bcpfClasses, trieVars, grammarVars, compareVars,
                   overlapVars, patternVars, reportVars>>

---------------------------------------------------------------------------
(* The claims about the package classifier of analyze_bcpf.py, stated on   *)
(* the classes loaded and the lines of the monolithic flags file           *)

Computed == packageProperties.done /\ packageProperties.result.ok

\* the class named by a line of the flags file: the text before its ";->"
ClassOfLine(line) ==
    SubSeq(line, 1, (CHOOSE k \in 1..Len(line) :
                        line[k] = ARROW /\ \A j \in 1..(k - 1) : line[j] # ARROW) - 1)

ModuleOwned == bcpfClasses

OtherOwned == {ClassOfLine(flagsFile[i]) : i \in 1..Len(flagsFile)} \ bcpfClasses

\* the packages a class lies in or beneath: a/b/c, a/b and a for La/b/c/D
PackagesAbove(class_name) ==
    {SubSeq(class_name, 2, i - 1) : i \in {k \in 1..Len(class_name) : class_name[k] = "/"}}

\* the package a class lies in
PackageOfClass(class_name) ==
    IF PackagesAbove(class_name) = {} THEN <<>>
    ELSE CHOOSE p \in PackagesAbove(class_name) :
            \A q \in PackagesAbove(class_name) : Len(q) <= Len(p)

AllPackages == UNION {PackagesAbove(c) : c \in ModuleOwned \union OtherOwned}

ClassesBeneath(p, owned) == {c \in owned : p \in PackagesAbove(c)}

DirectClasses(p, owned) == {c \in owned : PackageOfClass(c) = p}

\* classes of the module and of others lie in or beneath p
MixedBeneath(p) == ClassesBeneath(p, ModuleOwned) # {} /\ ClassesBeneath(p, OtherOwned) # {}

\* every package above p holds classes of the module and of others beneath it
Visited(p) == \A q \in AllPackages : (q # p /\ Beneath(p, q)) => MixedBeneath(q)

ExpectedPrefixes ==
    {p \in AllPackages : /\ Visited(p)
                         /\ ClassesBeneath(p, ModuleOwned) # {}
                         /\ ClassesBeneath(p, OtherOwned) = {}}

ExpectedSingle ==
    {p \in AllPackages : /\ Visited(p)
                         /\ MixedBeneath(p)
                         /\ DirectClasses(p, ModuleOwned) # {}
                         /\ DirectClasses(p, OtherOwned) = {}}

ExpectedSplit ==
    {p \in AllPackages : /\ Visited(p)
                         /\ DirectClasses(p, ModuleOwned) # {}
                         /\ DirectClasses(p, OtherOwned) # {}}

NoRepeats(list) == \A i, j \in 1..Len(list) : list[i] = list[j] => i = j

\* C19: of the packages the classifier visits, those with only module-owned
\* classes in or beneath them are the package prefixes, and nothing beneath a
\* prefix is reported; of the others, those whose own classes are all
\* module-owned are the single packages and those whose own classes are owned
\* by the module and by others are the split packages; the sub-packages of a
\* package that is no prefix and has module-owned classes beneath it are visited;
\* no package is reported twice or in two lists
C19_Classification ==
    /\ packageProperties.done => (packageProperties.result.ok <=> bcpfClasses # {})
    /\ Computed =>
        LET result == packageProperties.result
        IN /\ set_of(result.package_prefixes) = {Dotted(p) : p \in ExpectedPrefixes}
           /\ set_of(result.single_packages) = {Dotted(p) : p \in ExpectedSingle}
           /\ set_of(result.split_packages) = {Dotted(p) : p \in ExpectedSplit}
           /\ NoRepeats(result.package_prefixes \o result.single_packages
                            \o result.split_packages)

\* C19 witness: a is split, its sub-package a.b is single because a.b.c belongs
\* to others, and b is a package prefix
C19_Witness ==
    /\ Computed
    /\ ModuleOwned = {<<"L", "a", "/", "B">>, <<"L", "a", "/", "b", "/", "C">>,
                      <<"L", "b", "/", "C">>}
    /\ OtherOwned = {<<"L", "a", "/", "B", "$", "C">>,
                     <<"L", "a", "/", "b", "/", "c", "/", "D">>}
    /\ packageProperties.result.split_packages = << <<"a">> >>
    /\ packageProperties.result.single_packages = << <<"a", ".", "b">> >>
    /\ packageProperties.result.package_prefixes = << <<"b">> >>

\* all classes of the module lie in the one package P and no class is owned
\* by another
OnlyPackage(P) ==
    /\ ModuleOwned # {}
    /\ \A c \in ModuleOwned : PackageOfClass(c) = P
    /\ OtherOwned = {}

\* the first package of a path: a for a/b/c
TopLevel(P) == CHOOSE q \in AllPackages : Beneath(P, q) /\ \A i \in 1..Len(q) : q[i] # "/"

\* C20 as claimed: with all the module's classes in one package P and no class
\* of another owner, P is among the package prefixes
C20_PackageItself ==
    Computed =>
        \A P \in AllPackages :
            OnlyPackage(P) => Dotted(P) \in set_of(packageProperties.result.package_prefixes)

\* C20 amended: with all the module's classes in one package P and no class of
\* another owner, the one package prefix is the top-level package of P, and no
\* package is reported as split or single
C20_TopLevelPackage ==
    Computed =>
        \A P \in AllPackages :
            OnlyPackage(P) =>
                /\ packageProperties.result.package_prefixes = <<Dotted(TopLevel(P))>>
                /\ packageProperties.result.split_packages = <<>>
                /\ packageProperties.result.single_packages = <<>>

\* C20 witness: for the one class a.b.c.D, also listed in the monolithic file,
\* the package prefix reported is a
C20_Witness ==
    /\ Computed
    /\ bcpfClasses = {<<"L", "a", "/", "b", "/", "c", "/", "D">>}
    /\ flagsFile = << <<"L", "a", "/", "b", "/", "c", "/", "D", ARROW, "m", "\n">> >>
    /\ OnlyPackage(<<"a", "/", "b", "/", "c">>)
    /\ packageProperties.result.package_prefixes = << <<"a">> >>

---------------------------------------------------------------------------
(* The claims about the structure of the trie and the effect of add *)

\* every node at or beneath node, with the keys of the path that leads to it
RECURSIVE NodesBeneath(_, _)
NodesBeneath(node, path) ==
    {[path |-> path, node |-> node]}
        \union (IF node.class = "InteriorNode"
                THEN UNION {NodesBeneath(node.nodes[i].node, Append(path, node.nodes[i].key)) :
                                i \in 1..Len(node.nodes)}
                ELSE {})

NodesOf(t) == NodesBeneath(tries[t], <<>>)

\* the step is an add call on trie t
AddCall(t) == calls' = calls + 1 /\ last'.op = "add" /\ last'.trie = t

\* C22 as claimed: an add with only_if_matches whose first element has no child of
\* the root returns without an error and leaves the trie as it was
C22_SkipsWithoutError ==
    [][\A t \in TrieIds :
          (AddCall(t) /\ last'.only_if_matches /\ Accepted(last'.signature)
              /\ ~Reaches(tries[t], <<ElementsOf(last'.signature)[1]>>))
          => (last'.outcome.ok /\ tries'[t] = tries[t])]_vars

\* C22 amended: an add with only_if_matches never gives the root a child; when the
\* text has two or more elements and the first has no child of the root, the call
\* returns without an error and the trie is as it was; a text of one element is
\* refused as no member; when the first element has a child of the root, the trie
\* and the outcome are those of the same add without only_if_matches
C22_OnlyIfMatches ==
    [][\A t \in TrieIds :
          (AddCall(t) /\ last'.only_if_matches /\ Accepted(last'.signature)) =>
              LET elements == ElementsOf(last'.signature)
                  plain == add(tries[t], last'.signature, last'.value, FALSE)
              IN /\ Len(tries'[t].nodes) = Len(tries[t].nodes)
                 /\ (Len(elements) >= 2 /\ ~Reaches(tries[t], <<elements[1]>>))
                       => /\ last'.outcome.ok
                          /\ ~last'.outcome.stored
                          /\ tries'[t] = tries[t]
                 /\ Len(elements) = 1
                       => /\ last'.outcome = Raise(NotAMember, last'.signature)
                          /\ tries'[t] = tries[t]
                 /\ Reaches(tries[t], <<elements[1]>>)
                       => /\ tries'[t] = plain.node
                          /\ last'.outcome = plain.outcome]_vars

\* C22 witness: with a member of package a stored, an add with only_if_matches of a
\* member of package b returned without storing it, and a is the root's one child
C22_Witness ==
    /\ last.op = "add"
    /\ last.only_if_matches
    /\ last.signature = <<"L", "b", "/", "B", ARROW, "m">>
    /\ last.outcome.ok /\ ~last.outcome.stored
    /\ Len(added[1]) = 1
    /\ Len(tries[1].nodes) = 1
    /\ tries[1].nodes[1].key = <<"package", <<"a">> >>

\* the kinds of the keys of a path
KindsOf(path) == [i \in 1..Len(path) |-> path[i][1]]

\* packages, then classes, then one member
WellShaped(kinds) ==
    /\ kinds # <<>>
    /\ kinds[Len(kinds)] = "member"
    /\ \A i \in 1..(Len(kinds) - 1) : kinds[i] \in {"package", "class"}
    /\ \A i, j \in 1..(Len(kinds) - 1) : (i < j /\ kinds[i] = "class") => kinds[j] = "class"

\* C25: in every state of a trie, the path to each Leaf is packages, then classes,
\* then one member; a Leaf is stored under a member key only, and no InteriorNode
\* is stored under a member key
C25_PathShape ==
    \A n \in NodesOf(1) :
        /\ n.node.class = "Leaf" => WellShaped(KindsOf(n.path))
        /\ (n.node.class = "InteriorNode" /\ n.path # <<>>)
              => n.path[Len(n.path)][1] # "member"

\* the selector of a path: packages joined by '/', classes by '$', a '/' between
\* the two, every member after a ";->"
RECURSIVE MembersAppended(_)
MembersAppended(members) ==
    IF members = <<>> THEN <<>>
    ELSE <<ARROW>> \o Head(members) \o MembersAppended(Tail(members))

SelectorOfPath(path) ==
    LET packages == Joined(ValuesOfKind(path, "package"), "/")
        classNames == Joined(ValuesOfKind(path, "class"), "$")
    IN packages
        \o (IF packages # <<>> /\ classNames # <<>> THEN <<"/">> ELSE <<>>)
        \o classNames
        \o MembersAppended(ValuesOfKind(path, "member"))

\* what a trie holds of a node: the path to it, its type and its selector
Identity(n) == [path |-> n.path, type |-> n.node.type, selector |-> n.node.selector]

InteriorNodesOf(t) == {n \in NodesOf(t) : n.node.class = "InteriorNode" /\ n.path # <<>>}

\* C26: an InteriorNode made by add has the kind of its key as its type and the
\* selector of the path from the root to it as its selector, and no add changes
\* the type or the selector of a node that exists
C26_TypeAndSelector ==
    /\ [](\A n \in InteriorNodesOf(1) :
              /\ n.node.type = n.path[Len(n.path)][1]
              /\ n.node.selector = SelectorOfPath(n.path))
    /\ [][\A t \in TrieIds :
             {Identity(n) : n \in NodesOf(t)} \subseteq {Identity(n) : n \in NodesOf(t)'}]_vars

\* C26 witness: the nodes a, a/b, a/B and a/B$C were made by three adds
C26_Witness ==
    /\ calls = 3
    /\ {n.node.selector : n \in InteriorNodesOf(1)} =
          { <<"a">>, <<"a", "/", "b">>, <<"a", "/", "b", "/", "D">>,
            <<"a", "/", "B">>, <<"a", "/", "B", "$", "C">> }
    /\ {n.node.type : n \in InteriorNodesOf(1)} = {"package", "class"}

\* C28: an add call that fails leaves the trie as it was before the call
C28_FailedAddChangesNothing ==
    [][\A t \in TrieIds :
          (AddCall(t) /\ ~last'.outcome.ok) => tries'[t] = tries[t]]_vars

\* the values of the Leaves at or beneath a node
ValuesBeneath(node) == {leaf[2] : leaf \in LeavesOf(node, <<>>)}

\* the rows of a call that returned, none for one that raised
ReturnsExactly(result, valueSet) == result.ok /\ HoldsExactly(result.rows, valueSet)

UniqueSelectors(t) ==
    \A n, m \in NodesOf(t) : n.node.selector = m.node.selector => n = m

\* C24: the selector of every node, handed to get_matching_rows on the root,
\* returns the values of the Leaves at or beneath the node, and no two nodes have
\* the same selector
C24_SelectorSelectsNode ==
    /\ \A n \in NodesOf(1) :
          ReturnsExactly(get_matching_rows(tries[1], n.node.selector), ValuesBeneath(n.node))
    /\ UniqueSelectors(1)

---------------------------------------------------------------------------
(* The claim about the validation of a whole run of signature_patterns.py *)

MainRun == patternCall.fn = "main"

WildcardWithPackages ==
    <<"*">> \in splitPackages /\ \E p \in splitPackages : p # <<"*">>

SplitAndSingle == {p \in splitPackages : \E i \in 1..Len(singlePackages) : singlePackages[i] = p}

\* the split and single packages that a declared prefix matches
MatchedByPrefix ==
    {p \in SplitAndSinglePackages : p # <<"*">> /\ \E q \in DeclaredPrefixes : Beneath(p, q)}

Reports(printed, error) == \E i \in 1..Len(printed) : printed[i].error = error

\* C27: a run whose options break several rules reports the errors of every
\* broken rule
C27_EveryRuleReported ==
    MainRun =>
        LET printed == IF patternCall.result.exit = 1 THEN patternCall.result.printed ELSE <<>>
        IN /\ WildcardWithPackages
                => Reports(printed, "split packages contain both the wildcard and specific packages")
           /\ SplitAndSingle # {}
                => Reports(printed, "single_packages and split_packages overlap")
           /\ MatchedByPrefix # {} => Reports(printed, "is matched by package prefix")

---------------------------------------------------------------------------
(* End to end runs: the classes of a monolithic flags file, some of them    *)
(* the module's; the package properties computed for the module are the    *)
(* options of signature_patterns.py, run on the module's flags, and the     *)
(* patterns it writes are matched against a trie of the monolithic flags.   *)

MonolithicClassNames ==
    ClassNames \union { <<"L", "L", "a", "/", "B">>, <<"L", "D">> }

\* a flags file with one line for each class, in ascending order
FileOf(classSet) ==
    LET ordered == sorted(classSet)
    IN [i \in 1..Len(ordered) |-> FlagLine(ordered[i])]

MonolithicFiles ==
    {FileOf(classSet) : classSet \in {c \in SUBSET MonolithicClassNames :
                                          Cardinality(c) <= MaxClasses}}

\* the signatures of the lines of a flags file
signatures_of(lines) == [i \in 1..Len(lines) |-> line_to_signature(rstrip(lines[i]))]

\* signature_patterns.py run on the module's flags with the computed properties
GeneratePatterns ==
    /\ packageProperties.done
    /\ packageProperties.result.ok
    /\ patternCall.fn = "none"
    /\ LET properties == packageProperties.result
           flags == signatures_of(FileOf(bcpfClasses))
           split_packages == set_of(dot_packages_to_slash_packages(properties.split_packages))
       IN /\ flagsStream' = flags
          /\ splitPackages' = split_packages
          /\ singlePackages' = dot_packages_to_slash_packages(properties.single_packages)
          /\ packagePrefixes' = dot_packages_to_slash_packages(properties.package_prefixes)
          /\ \E order \in Orders(split_packages) :
                patternCall' = [fn |-> "main",
                                result |-> main(properties.split_packages,
                                                properties.single_packages,
                                                properties.package_prefixes, flags, order)]
    /\ UNCHANGED <<matchedBack, trieVars, grammarVars, compareVars, overlapVars,
                   classifierVars, reportVars>>

\* the patterns written, matched against a trie of the monolithic flags
SelectFromMonolithic ==
    /\ patternCall.fn = "main"
    /\ patternCall.result.exit = 0
    /\ ~matchedBack.done
    /\ LET built == trie_of(signature_trie, signatures_of(flagsFile), 1)
       IN matchedBack' =
             [done |-> TRUE,
              result |-> IF built.ok
                         THEN matching_rows_of(built.trie, patternCall.result.written, 1)
                         ELSE built]
    /\ UNCHANGED <<flagsStream, splitPackages, singlePackages, packagePrefixes,
                   patternCall, trieVars, grammarVars, compareVars, overlapVars,
                   classifierVars, reportVars>>

---------------------------------------------------------------------------
(* The end to end claims *)

Generated == patternCall.fn = "main" /\ packageProperties.done

\* C21: the package properties computed for any module are valid options of the
\* pattern generator: no package is both split and single, none of them equals
\* or lies beneath a package prefix, and the run on the module's own flags
\* reports no unmatched package
C21_ValidInput ==
    Generated =>
        /\ SplitAndSingle = {}
        /\ MatchedByPrefix = {}
        /\ patternCall.result.exit = 0

\* the class path cut at the first '$'
OuterClass(class_name) ==
    IF \E i \in 1..Len(class_name) : class_name[i] = "$"
    THEN SubSeq(class_name, 1, (CHOOSE i \in 1..Len(class_name) :
                    class_name[i] = "$" /\ \A j \in 1..(i - 1) : class_name[j] # "$") - 1)
    ELSE class_name

\* no outer class has nested classes of another owner
NoMixedNesting ==
    \A mine \in ModuleOwned, theirs \in OtherOwned : OuterClass(mine) # OuterClass(theirs)

\* C23: the patterns generated with the computed properties select, from a trie
\* of the monolithic flags, exactly the signatures of the module's classes
C23_SelectsModuleSignatures ==
    (Generated /\ matchedBack.done /\ NoMixedNesting) =>
        /\ matchedBack.result.ok
        /\ matchedBack.result.rows = set_of(flagsStream)

\* the two claims for modules whose classes all lie in a package that does not
\* begin with the letter L
C21_C23_OfPackagedClasses ==
    (Generated /\ \A c \in ModuleOwned \union OtherOwned : Len(c) > 2 /\ c[2] # "L") =>
        /\ SplitAndSingle = {}
        /\ MatchedByPrefix = {}
        /\ patternCall.result.exit = 0
        /\ (matchedBack.done /\ NoMixedNesting) =>
              /\ matchedBack.result.ok
              /\ matchedBack.result.rows = set_of(flagsStream)

---------------------------------------------------------------------------
(* Runs of the two implementations side by side: trie 1 is made by          *)
(* signature_trie() of signature_trie.py, trie 2 is an InteriorNode() of    *)
(* verify_overlaps.py, and every call is made on both with the same         *)
(* arguments.                                                               *)

\* the member signatures handed to both add methods
MemberSignatures ==
    { <<"L", "a", "/", "B", ARROW, "m">>,
      <<"L", "a", "/", "B", ARROW, "n">>,
      <<"L", "a", "/", "B", "$", "C", ARROW, "m">>,
      <<"L", "a", "/", "b", "/", "D", ARROW, "m">>,
      <<"L", "b", "/", "B", ARROW, "m">>,
      <<"L", "D", ARROW, "m">>,
      <<"L", "a", "/", "b", ARROW, "m">>,
      <<"L", "a", "/", "B", ";", ARROW, "m">>,
      <<"L", "a", "/", "B", ARROW, "m", ARROW, "n">> }

\* full signatures, outer-class paths, package/* and package/**
BothPatterns ==
    { <<"L", "a", "/", "B", ARROW, "m">>,
      <<"L", "a", "/", "b", ARROW, "m">>,
      <<"L", "D", ARROW, "m">>,
      <<"a", "/", "B">>,
      <<"a", "/", "b", "/", "D">>,
      <<"D">>,
      <<"a", "/", "*">>,
      <<"a", "/", "b", "/", "*">>,
      <<"a", "/", "*", "*">>,
      <<"b", "/", "*", "*">> }

BothInit ==
    /\ tries = [t \in TrieIds |-> IF t = 1 THEN signature_trie ELSE vo_InteriorNode]
    /\ added = [t \in TrieIds |-> <<>>]
    /\ last = TrieIdle
    /\ calls = 0

\* add(signature, value) on both tries
AddBoth(signature) ==
    /\ calls < MaxAdds
    /\ LET value == calls + 1
           done == add(tries[1], signature, value, FALSE)
           vo_done == vo_add(tries[2], signature, value)
           entry == [signature |-> signature, value |-> value]
       IN /\ tries' = [t \in TrieIds |-> IF t = 1 THEN done.node ELSE vo_done.node]
          /\ added' = [t \in TrieIds |->
                          IF (IF t = 1 THEN done.outcome.ok ELSE vo_done.outcome.ok)
                          THEN Append(added[t], entry) ELSE added[t]]
          /\ last' = [op |-> "add", signature |-> signature, value |-> value,
                      outcome |-> done.outcome, vo_outcome |-> vo_done.outcome]
    /\ calls' = calls + 1
    /\ UNCHANGED <<grammarVars, compareVars, toolVars>>

\* get_matching_rows(pattern) and getMatchingRows(pattern)
QueryBoth(pattern) ==
    /\ last' = [op |-> "get_matching_rows", pattern |-> pattern,
                result |-> get_matching_rows(tries[1], pattern),
                vo_result |-> getMatchingRows(tries[2], pattern)]
    /\ UNCHANGED <<tries, added, calls, grammarVars, compareVars, toolVars>>

---------------------------------------------------------------------------
(* The claim about the two implementations of the trie *)

\* how often a value occurs in a list
Occurrences(list, value) == Cardinality({i \in 1..Len(list) : list[i] = value})

SameMultiset(left, right) ==
    \A value \in set_of(left) \union set_of(right) :
        Occurrences(left, value) = Occurrences(right, value)

SameAnswer ==
    /\ last.op = "add" => (last.outcome.ok <=> last.vo_outcome.ok)
    /\ last.op = "get_matching_rows" =>
          /\ last.result.ok <=> last.vo_result.ok
          /\ (last.result.ok /\ last.vo_result.ok) =>
                SameMultiset(last.result.rows, last.vo_result.rows)

\* C29: after the same member signatures are added to both tries, both add
\* methods accept or both reject every signature, and every full signature,
\* outer-class path, package/* and package/** returns the same multiset of
\* values from both
C29_SameAnswers == SameAnswer

\* the texts whose class part is not written as the grammar asks: a lower-case
\* class name, or a ';' before the member separator
OddClassTexts ==
    { <<"L", "a", "/", "b", ARROW, "m">>,
      <<"L", "a", "/", "B", ";", ARROW, "m">> }

\* C29 for the runs that hand neither trie a text of OddClassTexts: both tries
\* give the same answers
C29_SameAnswersOnPlainClasses ==
    ((\A t \in TrieIds : \A i \in 1..Len(added[t]) : added[t][i].signature \notin OddClassTexts)
     /\ (last.op = "add" => last.signature \notin OddClassTexts)
     /\ (last.op = "get_matching_rows" => last.pattern \notin OddClassTexts))
    => SameAnswer

---------------------------------------------------------------------------
(* The report of inconsistent flags: main of verify_overlaps.py prints it  *)
(* and build_hiddenapi_flags of analyze_bcpf.py reads it back from the     *)
(* build output with scan_inconsistent_flags_report.  A line is a text;    *)
(* "< " and "> " and the header are single lexemes, and so is every flag.  *)

_INCONSISTENT_FLAGS == "ERROR: Hidden API flags are inconsistent:"
LESS == "< "
GREATER == "> "
InvalidBuildOutput == "Invalid build output detected"
InconsistentSignatures == "Inconsistent signatures detected"
StopIteration == "StopIteration"

\* sep.join(texts), sep a single lexeme
RECURSIVE join(_, _)
join(sep, texts) ==
    IF texts = <<>> THEN <<>>
    ELSE IF Len(texts) = 1 THEN texts[1]
    ELSE texts[1] \o <<sep>> \o join(sep, Tail(texts))

\* the flags of a row as texts
flag_texts(flags) == [i \in 1..Len(flags) |-> <<flags[i]>>]

\* the lines main prints for the mismatches from mismatch i on
RECURSIVE print_mismatches(_, _)
print_mismatches(mismatchingSignatures, i) ==
    IF i > Len(mismatchingSignatures) THEN <<>>
    ELSE LET mismatch == mismatchingSignatures[i]
             signature == mismatch[1]
         IN << <<>>,
               <<LESS>> \o join(",", <<signature>> \o flag_texts(mismatch[2])),
               <<GREATER>> \o join(",", <<signature>> \o flag_texts(mismatch[3])) >>
            \o print_mismatches(mismatchingSignatures, i + 1)

\* the lines main prints for one module
print_report(modularFlagsPath, monolithicFlagsPath, mismatchingSignatures) ==
    IF mismatchingSignatures # <<>>
    THEN << <<_INCONSISTENT_FLAGS>>,
            <<LESS>> \o modularFlagsPath,
            <<GREATER>> \o monolithicFlagsPath >>
         \o print_mismatches(mismatchingSignatures, 1)
    ELSE <<>>

check_inconsistent_flag_lines(module_line, monolithic_line, separator_line) ==
    startswith(module_line, LESS) /\ startswith(monolithic_line, GREATER)
    /\ separator_line = <<>>

\* diffs[key] = value
diffs_set(diffs, key, value) ==
    [k \in DOMAIN diffs \union {key} |-> IF k = key THEN value ELSE diffs[k]]

TimeoutExpired == "subprocess.TimeoutExpired"

\* sys.exit(1) or an exception inside scan_inconsistent_flags_report
scan_raised(analyzer, error) ==
    [analyzer EXCEPT !.pc = "done",
                     !.scans = Append(@, [ok |-> FALSE, error |-> error]),
                     !.result = [ok |-> FALSE, error |-> error]]

\* "line, diffs = self.scan_inconsistent_flags_report(lines)" and the test of
\* the while loop on the line returned
scan_returned(analyzer, line, diffs) ==
    [analyzer EXCEPT !.pc = IF line = <<_INCONSISTENT_FLAGS>> THEN "scan first" ELSE "for",
                     !.triple = <<>>,
                     !.diffs = diffs,
                     !.scans = Append(@, [ok |-> TRUE, line |-> line, diffs |-> diffs])]

\* the triple after the first of a report
scan_triple(analyzer, module_line, monolithic_line, separator_line) ==
    LET module_parts == split(removeprefix(module_line, LESS), ",")
        module_signature == module_parts[1]
        module_flags == Tail(module_parts)
        monolithic_parts == split(removeprefix(monolithic_line, GREATER), ",")
        monolithic_signature == monolithic_parts[1]
        monolithic_flags == Tail(monolithic_parts)
        entered == diffs_set(analyzer.entries, module_signature,
                             <<module_flags, monolithic_flags>>)
    IN IF ~check_inconsistent_flag_lines(module_line, monolithic_line, <<>>)
       THEN scan_raised(analyzer, InvalidBuildOutput)
       ELSE IF module_signature # monolithic_signature
       THEN scan_raised(analyzer, InconsistentSignatures)
       ELSE IF separator_line # <<>>
       THEN scan_returned(analyzer, separator_line, entered)
       ELSE [analyzer EXCEPT !.triple = <<>>, !.entries = entered]

\* what build_hiddenapi_flags does with the next line of the build: the for
\* loop tests it, or zip takes it into the triple it is filling
read_line(analyzer, line) ==
    IF analyzer.pc = "for"
    THEN IF line = <<_INCONSISTENT_FLAGS>>
         THEN [analyzer EXCEPT !.pc = "scan first", !.triple = <<>>]
         ELSE analyzer
    ELSE LET triple == Append(analyzer.triple, line)
         IN IF Len(triple) < 3 THEN [analyzer EXCEPT !.triple = triple]
            ELSE IF analyzer.pc = "scan first"
            THEN IF ~check_inconsistent_flag_lines(triple[1], triple[2], triple[3])
                 THEN scan_raised(analyzer, InvalidBuildOutput)
                 ELSE [analyzer EXCEPT !.pc = "scan", !.triple = <<>>, !.entries = <<>>]
            ELSE scan_triple(analyzer, triple[1], triple[2], triple[3])

\* what it does at the end of the output: the for loop ends; next(triples) has
\* no first triple; or zip drops the triple it cannot fill and the scan returns
read_end(analyzer) ==
    IF analyzer.pc = "for" THEN [analyzer EXCEPT !.pc = "wait"]
    ELSE IF analyzer.pc = "scan first" THEN scan_raised(analyzer, StopIteration)
    ELSE [scan_returned(analyzer, <<>>, analyzer.entries) EXCEPT !.pc = "wait"]

Reading == {"for", "scan first", "scan"}

\* the lines from lines[i] on read one after the other, then the end of the
\* output; with one_scan, up to the end of the first scan
RECURSIVE read_all(_, _, _, _)
read_all(analyzer, lines, i, one_scan) ==
    IF analyzer.pc \notin Reading \/ (one_scan /\ analyzer.scans # <<>>) THEN analyzer
    ELSE IF i > Len(lines) THEN read_end(analyzer)
    ELSE read_all(read_line(analyzer, lines[i]), lines, i + 1, one_scan)

\* BcpfAnalyzer.scan_inconsistent_flags_report on the lines after the header
scan_inconsistent_flags_report(lines) ==
    read_all([NotScanned EXCEPT !.pc = "scan first"], lines, 1, TRUE).scans[1]

\* output.wait(timeout=10) and return diffs
wait_returned(analyzer) ==
    [analyzer EXCEPT !.pc = "done", !.result = [ok |-> TRUE, diffs |-> analyzer.diffs]]

wait_timed_out(analyzer) ==
    [analyzer EXCEPT !.pc = "done", !.result = [ok |-> FALSE, error |-> TimeoutExpired]]

\* BcpfAnalyzer.build_hiddenapi_flags on the lines of a build that exits in time
build_hiddenapi_flags(lines) ==
    LET analyzer == read_all([NotScanned EXCEPT !.pc = "for"], lines, 1, FALSE)
    IN IF analyzer.pc = "wait" THEN wait_returned(analyzer).result ELSE analyzer.result

ModularFlagsPath == <<"out/soong/.intermediates/bcpf-dir/bcpf/filtered-flags.csv">>
MonolithicFlagsPath == <<"out/soong/hiddenapi/hiddenapi-flags.csv">>
OtherFlagsPath == <<"out/soong/.intermediates/other/bcpf2/filtered-flags.csv">>

\* the mismatches of a second module that main compares after the first
OtherMismatches ==
    { <<>>, << <<(<<"L", "b", "/", "B", ARROW, "m">>), <<>>, <<"blocked">> >> >> }

\* the lines the build prints after main, and the line it prints before
FollowingLines == { <<>>, <<"ninja failed with: exit status 1">> }
PrecedingLine == <<"FAILED:">>

\* the dicts of the report runs: rows of at most one flag
ReportDicts ==
    {dict \in FlagDicts : \A s \in DOMAIN dict : Len(row_flags(dict[s])) <= 1}

\* print(line): the line and its end
printed_line(line) == line \o <<"\n">>

\* build_file_read_output: build_hiddenapi_flags starts the build with its
\* output in a pipe
StartBuild ==
    /\ scanned.pc = "idle"
    /\ buildOutput.state = "not started"
    /\ buildOutput' = [buildOutput EXCEPT !.state = "running"]
    /\ scanned' = [scanned EXCEPT !.pc = "for"]
    /\ UNCHANGED <<compareVars, trieVars, grammarVars, overlapVars, patternVars,
                   classifierVars>>

\* the build prints a line of its own, before or after main has run
BuildPrints(line) ==
    /\ buildOutput.state = "running"
    /\ \/ /\ buildOutput.stage = "before"
          /\ buildOutput.lines = <<>>
          /\ line = PrecedingLine
          /\ buildOutput' = [buildOutput EXCEPT !.lines = Append(@, printed_line(line))]
       \/ /\ buildOutput.stage = "main"
          /\ buildOutput.pending = <<>>
          /\ buildOutput.after < MaxFollowing
          /\ line \in FollowingLines
          /\ buildOutput' = [buildOutput EXCEPT !.lines = Append(@, printed_line(line)),
                                                !.after = @ + 1]
    /\ UNCHANGED <<scanned, compareVars, trieVars, grammarVars, overlapVars, patternVars,
                   classifierVars>>

\* main of verify_overlaps.py, run by the build, has compared the module and a
\* second module: the lines it prints
MainReports(other) ==
    /\ buildOutput.state = "running"
    /\ buildOutput.stage = "before"
    /\ mismatches.call = TwoArguments
    /\ buildOutput' =
          [buildOutput EXCEPT
              !.stage = "main",
              !.pending = print_report(ModularFlagsPath, MonolithicFlagsPath,
                                       mismatches.result)
                          \o print_report(OtherFlagsPath, MonolithicFlagsPath, other)]
    /\ UNCHANGED <<scanned, compareVars, trieVars, grammarVars, overlapVars, patternVars,
                   classifierVars>>

\* main prints its next line
MainPrints ==
    /\ buildOutput.state = "running"
    /\ buildOutput.pending # <<>>
    /\ buildOutput' = [buildOutput EXCEPT
                          !.lines = Append(@, printed_line(Head(buildOutput.pending))),
                          !.pending = Tail(@)]
    /\ UNCHANGED <<scanned, compareVars, trieVars, grammarVars, overlapVars, patternVars,
                   classifierVars>>

\* the build closes its output
BuildCloses ==
    /\ buildOutput.state = "running"
    /\ buildOutput.pending = <<>>
    /\ buildOutput' = [buildOutput EXCEPT !.state = "closed"]
    /\ UNCHANGED <<scanned, compareVars, trieVars, grammarVars, overlapVars, patternVars,
                   classifierVars>>

\* the build exits
BuildExits ==
    /\ buildOutput.state = "closed"
    /\ buildOutput' = [buildOutput EXCEPT !.state = "exited"]
    /\ UNCHANGED <<scanned, compareVars, trieVars, grammarVars, overlapVars, patternVars,
                   classifierVars>>

\* readline gives the next line of the pipe, stripped
ReadLine ==
    /\ scanned.pc \in Reading
    /\ scanned.read < Len(buildOutput.lines)
    /\ scanned' = [read_line(scanned, rstrip(buildOutput.lines[scanned.read + 1]))
                      EXCEPT !.read = scanned.read + 1]
    /\ UNCHANGED <<buildOutput, compareVars, trieVars, grammarVars, overlapVars,
                   patternVars, classifierVars>>

\* readline gives the end of the output
ReadEnd ==
    /\ scanned.pc \in Reading
    /\ scanned.read = Len(buildOutput.lines)
    /\ buildOutput.state \in {"closed", "exited"}
    /\ scanned' = read_end(scanned)
    /\ UNCHANGED <<buildOutput, compareVars, trieVars, grammarVars, overlapVars,
                   patternVars, classifierVars>>

\* output.wait(timeout=10) returns: the build has exited
Wait ==
    /\ scanned.pc = "wait"
    /\ buildOutput.state = "exited"
    /\ scanned' = wait_returned(scanned)
    /\ UNCHANGED <<buildOutput, compareVars, trieVars, grammarVars, overlapVars,
                   patternVars, classifierVars>>

\* output.wait(timeout=10) raises: the build has not exited after 10 seconds
WaitTimesOut ==
    /\ scanned.pc = "wait"
    /\ buildOutput.state = "closed"
    /\ scanned' = wait_timed_out(scanned)
    /\ UNCHANGED <<buildOutput, compareVars, trieVars, grammarVars, overlapVars,
                   patternVars, classifierVars>>

---------------------------------------------------------------------------
(* The claim about the report *)

\* the lines the build has printed, as build_hiddenapi_flags reads them
LinesPrinted == [i \in 1..Len(buildOutput.lines) |-> rstrip(buildOutput.lines[i])]

\* the line of the first header of the build output
FirstHeader ==
    CHOOSE i \in 1..Len(LinesPrinted) :
        /\ LinesPrinted[i] = <<_INCONSISTENT_FLAGS>>
        /\ \A j \in 1..(i - 1) : LinesPrinted[j] # <<_INCONSISTENT_FLAGS>>

\* the lines of the build output after the report of the module
FollowingPrinted ==
    SubSeq(LinesPrinted, FirstHeader + 3 + 3 * Len(mismatches.result), Len(LinesPrinted))

\* build_hiddenapi_flags has ended on a build in which main printed the report
\* of the module's mismatches
ReportScanned ==
    /\ scanned.pc = "done"
    /\ buildOutput.stage = "main"
    /\ mismatches.result # <<>>

\* the flag texts as flags
FlagsOf(texts) == [i \in 1..Len(texts) |-> texts[i][1]]

\* the first scan returned diffs that hold one entry for each mismatch of the
\* module, with its two flag lists
Recovered ==
    /\ scanned.scans # <<>>
    /\ scanned.scans[1].ok
    /\ DOMAIN scanned.scans[1].diffs
           = {mismatches.result[i][1] : i \in 1..Len(mismatches.result)}
    /\ \A i \in 1..Len(mismatches.result) :
          LET mismatch == mismatches.result[i]
              entry == scanned.scans[1].diffs[mismatch[1]]
          IN /\ \A side \in 1..2 : \A k \in 1..Len(entry[side]) : Len(entry[side][k]) = 1
             /\ FlagsOf(entry[1]) = mismatch[2]
             /\ FlagsOf(entry[2]) = mismatch[3]

\* C30: the scan of a printed report recovers one diffs entry for each mismatch,
\* with the same modular and monolithic flags, whatever lines follow the report
\* and when none does
C30_RoundTrip == ReportScanned => Recovered

\* C30 for a report that a line which is not blank follows
C30_RoundTripBeforeALine ==
    (ReportScanned /\ FollowingPrinted # <<>> /\ FollowingPrinted[1] # <<>>) => Recovered

---------------------------------------------------------------------------
(* Specifications *)

\* one trie: any adds, any queries
Init ==
    /\ TrieInit
    /\ gtext = <<>>
    /\ gresult = GrammarIdle
    /\ CompareIdle
    /\ ToolsIdle

Next ==
    \/ \E input \in AddInputs : Add(1, input[1], input[2])
    \/ \E pattern \in Patterns : Query(1, pattern)

Spec == Init /\ [][Next]_vars

\* two tries made by separate signature_trie() calls
NextTwoTries ==
    \/ \E t \in TrieIds, input \in TwoTrieInputs : Add(t, input[1], input[2])
    \/ \E t \in TrieIds, pattern \in Patterns : Query(t, pattern)

SpecTwoTries == Init /\ [][NextTwoTries]_vars

\* the grammar on every text of at most MaxTextLen lexemes
InitGrammar ==
    /\ TrieInit
    /\ \E n \in 0..MaxTextLen : gtext \in TextsOfLen(n)
    /\ gresult = [phase |-> "input"]
    /\ CompareIdle
    /\ ToolsIdle

NextGrammar ==
    \/ Decompose
    \/ RoundTrip

SpecGrammar == InitGrammar /\ [][NextGrammar]_vars

\* the comparison on every pair of dicts
InitCompare ==
    /\ TrieInit
    /\ gtext = <<>>
    /\ gresult = GrammarIdle
    /\ monolithicFlagsDict \in FlagDicts
    /\ modularFlagsDict \in FlagDicts
    /\ implicitDefault = <<>>
    /\ mismatches = NoComparison
    /\ ToolsIdle

NextCompare ==
    \/ Compare
    \/ \E default \in ImplicitDefaults : CompareWithDefault(default)

SpecCompare == InitCompare /\ [][NextCompare]_vars


\* main of verify_overlaps.py: read, extract, compare
InitOverlap ==
    /\ TrieInit
    /\ gtext = <<>>
    /\ gresult = GrammarIdle
    /\ monolithicFlagsDict = EmptyDict
    /\ modularFlagsDict \in ModularDicts
    /\ implicitDefault = <<>>
    /\ mismatches = NoComparison
    /\ OverlapIdle
    /\ PatternsIdle
    /\ ClassifierIdle
    /\ ReportIdle

NextOverlap ==
    \/ \E rows \in MonolithicStreams : ReadFlagTrie(rows)
    \/ \E stream \in PatternStreams : Extract(stream)
    \/ CompareSubset

SpecOverlap == InitOverlap /\ [][NextOverlap]_vars


\* the validations of signature_patterns.py on every choice of the properties
InitValidate ==
    /\ TrieInit
    /\ gtext = <<>>
    /\ gresult = GrammarIdle
    /\ CompareIdle
    /\ OverlapIdle
    /\ flagsStream = <<>>
    /\ splitPackages \in SplitPackageSets
    /\ singlePackages \in SinglePackageLists
    /\ packagePrefixes \in PackagePrefixLists
    /\ patternCall = NoPatternCall
    /\ matchedBack = NotMatchedBack
    /\ ClassifierIdle
    /\ ReportIdle

NextValidate ==
    \/ ValidateSplitPackages
    \/ \E order \in Orders(splitPackages) : ValidatePackagePrefixes(order)
    \/ \E order \in Orders(splitPackages) : Main(order)

SpecValidate == InitValidate /\ [][NextValidate]_vars

\* produce_patterns_from_stream on every stream and choice of the properties
InitPatterns ==
    /\ TrieInit
    /\ gtext = <<>>
    /\ gresult = GrammarIdle
    /\ CompareIdle
    /\ OverlapIdle
    /\ flagsStream \in FlagStreams
    /\ splitPackages \in SplitPackageSets
    /\ singlePackages \in SinglePackageLists
    /\ packagePrefixes \in PackagePrefixLists
    /\ patternCall = NoPatternCall
    /\ matchedBack = NotMatchedBack
    /\ ClassifierIdle
    /\ ReportIdle

NextPatterns ==
    \/ ProducePatterns
    \/ MatchBack

SpecPatterns == InitPatterns /\ [][NextPatterns]_vars


InitClassifier ==
    /\ TrieInit
    /\ gtext = <<>>
    /\ gresult = GrammarIdle
    /\ CompareIdle
    /\ OverlapIdle
    /\ PatternsIdle
    /\ flagsFile \in FlagFiles
    /\ bcpfClasses = {}
    /\ packageProperties = NotComputed
    /\ ReportIdle

NextClassifier ==
    \/ \E lines \in FlagFiles : LoadAllFlags(lines)
    \/ ComputeHiddenapiPackageProperties

SpecClassifier == InitClassifier /\ [][NextClassifier]_vars



\* the classifier, the pattern generator and the trie, one after the other
InitEndToEnd ==
    /\ TrieInit
    /\ gtext = <<>>
    /\ gresult = GrammarIdle
    /\ CompareIdle
    /\ OverlapIdle
    /\ PatternsIdle
    /\ flagsFile \in MonolithicFiles
    /\ bcpfClasses = {}
    /\ packageProperties = NotComputed
    /\ ReportIdle

NextEndToEnd ==
    \/ \E module \in SUBSET load_all_flags_loop(flagsFile, 1, {}) : LoadAllFlags(FileOf(module))
    \/ ComputeHiddenapiPackageProperties
    \/ GeneratePatterns
    \/ SelectFromMonolithic

SpecEndToEnd == InitEndToEnd /\ [][NextEndToEnd]_vars



\* the tries of signature_trie.py and of verify_overlaps.py, given the same calls
InitBothTries ==
    /\ BothInit
    /\ gtext = <<>>
    /\ gresult = GrammarIdle
    /\ CompareIdle
    /\ ToolsIdle

NextBothTries ==
    \/ \E signature \in MemberSignatures : AddBoth(signature)
    \/ \E pattern \in BothPatterns : QueryBoth(pattern)

SpecBothTries == InitBothTries /\ [][NextBothTries]_vars



\* build_hiddenapi_flags and the build it starts, in which main of
\* verify_overlaps.py compares and reports
InitReport ==
    /\ TrieInit
    /\ gtext = <<>>
    /\ gresult = GrammarIdle
    /\ monolithicFlagsDict \in ReportDicts
    /\ modularFlagsDict \in ReportDicts
    /\ implicitDefault = <<>>
    /\ mismatches = NoComparison
    /\ ToolsIdle

NextReport ==
    \/ Compare
    \/ StartBuild
    \/ \E line \in FollowingLines \union {PrecedingLine} : BuildPrints(line)
    \/ \E other \in OtherMismatches : MainReports(other)
    \/ MainPrints
    \/ BuildCloses
    \/ BuildExits
    \/ ReadLine
    \/ ReadEnd
    \/ Wait
    \/ WaitTimesOut

SpecReport == InitReport /\ [][NextReport]_vars


====
